---------------------------- MODULE Spec2Model ----------------------------
(***************************************************************************)
(* BeeMapPRO: the flora-detection and apiary-scoring core.                 *)
(*                                                                         *)
(*   SpecStitch  GeoCNN.predict_image (backend variant): patch tiling and  *)
(*               the stitching loop, one patch per step.                   *)
(*                                                                         *)
(*   SpecNdvi    calculate_ndvi over a flattened pair of bands.             *)
(*   SpecHealth  calculate_vegetation_health (backend variant).            *)
(*   SpecFlower  estimate_flowering_stage (backend variant).               *)
(*   SpecApiary  ApiaryPotentialModel: construction (load or fallback      *)
(*               training), _save_model, _load_model, predict, and the     *)
(*               bundle file at model_path.                                *)
(*   SpecRoutes  one analyze-area request, in the Flask handler or in the  *)
(*               FastAPI route, one guarded block per step.                *)
(*   SpecPrep    GeoCNN.prepare_sentinel_data (src/python variant): the    *)
(*               tiling loops with the max_patches cap.                    *)
(*   SpecFlowerPy  estimate_flowering_stage (src/python variant).          *)
(*   SpecWater   GeospatialService._calculate_water_proximity_score.       *)
(*   SpecService the instance as the deployed service uses it: __init__    *)
(*               one statement group per step, then the handlers' calls of *)
(*               predict, get_feature_importances, explain_prediction.     *)
(*                                                                         *)
(* Every specification starts the variables of the other components at an  *)
(* idle value and leaves them unchanged.                                   *)
(***************************************************************************)
EXTENDS Integers, Sequences, FiniteSets, TLC

VARIABLES
    \* GeoCNN.predict_image
    h, w,               \* image dimensions (bands['red'].shape)
    patch_size, stride, \* the call's parameters
    patch_indices,      \* list of (i, j) top-left offsets
    class_predictions,  \* argmax class of each patch
    output,             \* the (h, w) class map
    pidx,               \* position of the stitching loop in patch_indices
    pc_img,             \* "start" | "stitch" | "done" | "error"
    \* calculate_ndvi
    band_dtype,         \* dtype of the two band arrays
    nir_band, red_band, \* the bands, flattened
    ndvi,               \* the returned array
    pc_ndvi,            \* "idle" | "start" | "done"
    \* calculate_vegetation_health
    ndvi_grid,          \* the NDVI array passed in, flattened, in tenths
    metrics,            \* the returned dict
    pc_health,          \* "idle" | "start" | "done" | "error"
    \* estimate_flowering_stage
    date_str,           \* the date_str argument
    fl_ndvi, fl_evi,    \* the ndvi and evi arguments, flattened, in tenths
    flowering_info,     \* the returned dict
    pc_flower,          \* "idle" | "start" | "done" | "error"
    \* the analyze-area handlers (Flask api.py, FastAPI vegetation_routes.py)
    route,              \* "flask" | "fastapi": which handler got the request
    area_type,          \* the request's 'type' ("" when missing)
    coordinates,        \* the request's 'coordinates', points in 0.01 degree
    calls,              \* imagery and model operations invoked so far
    response,           \* the answer: status and kind
    ml_features,        \* the mapping MLService passes to explain_prediction
    temp_dirs,          \* the directories made by tempfile.mkdtemp that exist
    pc_req,             \* "idle" | "start" | ... | "done"
    \* GeoCNN.prepare_sentinel_data (src/python variant)
    height, width,      \* feature_stack.shape[1:]
    sp_patch_size,      \* the patch_size argument
    overlap,            \* the overlap argument, in quarters
    max_patches,        \* the max_patches argument
    patches,            \* the returned patches, each as its offset (y, x)
    pc_prep,            \* "idle" | "start" | "done" | "error"
    \* GeospatialService._calculate_water_proximity_score
    water_sources,      \* the water_sources argument, each as its distance
    water_proximity,    \* the returned score
    pc_water,           \* "idle" | "start" | "done"
    \* ApiaryPotentialModel
    disk,               \* the file at model_path
    disk_writer,        \* who wrote it: "env" | "self" | "earlier"
    cur,                \* the instance (the process's ApiaryPotentialModel)
    prev_how,           \* how the instance before it was constructed
    train_data,         \* X_train, y_train of the last fallback training
    last,               \* the last call and what it returned
    explained,          \* an earlier explain_prediction call on the instance
                        \* and its result, as a caller kept them
    init_pc             \* position of __init__: "none" before it runs,
                        \* "done" once it has returned

imgVars == <<h, w, patch_size, stride, patch_indices, class_predictions,
             output, pidx, pc_img>>

ndviVars == <<band_dtype, nir_band, red_band, ndvi, pc_ndvi>>

healthVars == <<ndvi_grid, metrics, pc_health>>

apiaryVars ==
    <<disk, disk_writer, cur, prev_how, train_data, last, explained,
      init_pc>>

flowerVars == <<date_str, fl_ndvi, fl_evi, flowering_info, pc_flower>>

reqVars ==
    <<route, area_type, coordinates, calls, response, ml_features, temp_dirs,
      pc_req>>

prepVars ==
    <<height, width, sp_patch_size, overlap, max_patches, patches, pc_prep>>

waterVars == <<water_sources, water_proximity, pc_water>>

vars == <<imgVars, ndviVars, healthVars, flowerVars, reqVars, apiaryVars,
      prepVars, waterVars>>

\* What each component leaves alone.
notImgVars == <<ndviVars, healthVars, flowerVars, reqVars, apiaryVars,
      prepVars, waterVars>>

notNdviVars == <<imgVars, healthVars, flowerVars, reqVars, apiaryVars,
      prepVars, waterVars>>

notHealthVars == <<imgVars, ndviVars, flowerVars, reqVars, apiaryVars,
      prepVars, waterVars>>

notFlowerVars == <<imgVars, ndviVars, healthVars, reqVars, apiaryVars,
      prepVars, waterVars>>

notReqVars == <<imgVars, ndviVars, healthVars, flowerVars, apiaryVars,
      prepVars, waterVars>>

notApiaryVars == <<imgVars, ndviVars, healthVars, flowerVars, reqVars,
      prepVars, waterVars>>

notPrepVars ==
    <<imgVars, ndviVars, healthVars, flowerVars, reqVars, apiaryVars,
      waterVars>>

notWaterVars ==
    <<imgVars, ndviVars, healthVars, flowerVars, reqVars, apiaryVars, prepVars>>

----------------------------------------------------------------------------
(* Bounds of the model *)

MaxH == 4
MaxW == 5
MaxPatchSize == 4
MaxStride == 2
MaxPatches == 4
MaxPixels == 2
MaxCells == 3
NSamples == 2
MaxEviCells == 1
MaxPoints == 4
MaxCap == 3
MaxSources == 3

(* Program constants *)

NumClasses == 4

----------------------------------------------------------------------------
(* Helpers *)

AbsI(x) == IF x < 0 THEN -x ELSE x

SeqToSet(s) == {s[k] : k \in 1..Len(s)}

MaxOf(S) == CHOOSE x \in S : \A y \in S : y <= x

MinOf(S) == CHOOSE x \in S : \A y \in S : x <= y

----------------------------------------------------------------------------
(* GeoCNN.predict_image: tiling *)

\* Python's range(0, stop, step) for step > 0, as the list it iterates.
RECURSIVE PyRangeFrom(_, _, _)
PyRangeFrom(i, stop, step) ==
    IF i < stop THEN <<i>> \o PyRangeFrom(i + step, stop, step) ELSE <<>>

PyRange(stop, step) == PyRangeFrom(0, stop, step)

\* Stop value of the two tiling loops: range(0, n - patch_size + 1, stride).
TilingStopShort(n, s) == n - s

TilingStop(n, s) == n - s + 1

\* The inner loop: one row of offsets (i, j) for j in range(0, w - s + 1, t).
RowOffsets(i, js) == [k \in 1..Len(js) |-> <<i, js[k]>>]

RECURSIVE ConcatRows(_, _)
ConcatRows(is, js) ==
    IF is = <<>> THEN <<>>
    ELSE RowOffsets(Head(is), js) \o ConcatRows(Tail(is), js)

\* patch_indices as the nested loops append them.
PatchIndices(hh, ww, s, t) ==
    ConcatRows(PyRange(TilingStop(hh, s), t), PyRange(TilingStop(ww, s), t))

----------------------------------------------------------------------------
(* GeoCNN.predict_image: stitching *)

Pixels(hh, ww) == (0..(hh - 1)) \X (0..(ww - 1))

\* weight = 1 - (|di - s/2| + |dj - s/2|) / s, held as its numerator over 2s:
\* weight = Weight2(di, dj, s) / (2 s).
Weight2(di, dj, s) == 2 * s - (AbsI(2 * di - s) + AbsI(2 * dj - s))

\* weight > 0.5
WeightOverHalf(di, dj, s) == Weight2(di, dj, s) > s

\* range(patch_size) of the two inner loops.
WindowRangeLong(s) == 0..s

WindowRange(s) == 0..(s - 1)

\* The pixel (i + di, j + dj) is visited by the loops over the patch at (i, j)
\* and passes the bounds test 0 <= i + di < h and 0 <= j + dj < w.
InWindow(px, off, s, hh, ww) ==
    /\ (px[1] - off[1]) \in WindowRange(s)
    /\ (px[2] - off[2]) \in WindowRange(s)
    /\ 0 <= px[1] /\ px[1] < hh
    /\ 0 <= px[2] /\ px[2] < ww

\* if output[i + di, j + dj] == 0 or weight > 0.5
OverwritesFirstOnly(val, di, dj, s) == val = 0

Overwrites(val, di, dj, s) == val = 0 \/ WeightOverHalf(di, dj, s)

\* The two inner loops for one patch: every pixel of the window is visited
\* once, so the whole patch is one function update.
StitchOne(out, off, pred, s, hh, ww) ==
    [px \in DOMAIN out |->
        IF /\ InWindow(px, off, s, hh, ww)
           /\ Overwrites(out[px], px[1] - off[1], px[2] - off[2], s)
        THEN pred
        ELSE out[px]]

ImgInputs ==
    {c \in (1..MaxH) \X (1..MaxW) \X (1..MaxPatchSize) \X (0..MaxStride) :
        c[4] > 0 => Len(PatchIndices(c[1], c[2], c[3], c[4])) <= MaxPatches}

ImgInit ==
    /\ \E c \in ImgInputs :
        /\ h = c[1]
        /\ w = c[2]
        /\ patch_size = c[3]
        /\ stride = c[4]
    /\ patch_indices = <<>>
    /\ class_predictions = <<>>
    /\ output = <<>>
    /\ pidx = 0
    /\ pc_img = "start"

\* range() with step 0 raises ValueError.
TileZeroStride ==
    /\ pc_img = "start"
    /\ stride = 0
    /\ pc_img' = "error"
    /\ UNCHANGED <<h, w, patch_size, stride, patch_indices, class_predictions,
                   output, pidx>>
    /\ UNCHANGED notImgVars

\* No patch fits: np.transpose of the empty array raises ValueError.
TileNoPatch ==
    /\ pc_img = "start"
    /\ stride > 0
    /\ PatchIndices(h, w, patch_size, stride) = <<>>
    /\ patch_indices' = <<>>
    /\ pc_img' = "error"
    /\ UNCHANGED <<h, w, patch_size, stride, class_predictions, output, pidx>>
    /\ UNCHANGED notImgVars

\* Tiling, model.predict and argmax, and the zero-filled output image.
TileAndPredict ==
    /\ pc_img = "start"
    /\ stride > 0
    /\ PatchIndices(h, w, patch_size, stride) # <<>>
    /\ patch_indices' = PatchIndices(h, w, patch_size, stride)
    /\ \E preds \in [1..Len(PatchIndices(h, w, patch_size, stride))
                        -> 0..(NumClasses - 1)] :
        class_predictions' = preds
    /\ output' = [px \in Pixels(h, w) |-> 0]
    /\ pidx' = 1
    /\ pc_img' = "stitch"
    /\ UNCHANGED <<h, w, patch_size, stride>>
    /\ UNCHANGED notImgVars

\* One iteration of "for (i, j), pred in zip(patch_indices, class_predictions)".
StitchPatch ==
    /\ pc_img = "stitch"
    /\ pidx <= Len(patch_indices)
    /\ output' = StitchOne(output, patch_indices[pidx], class_predictions[pidx],
                           patch_size, h, w)
    /\ pidx' = pidx + 1
    /\ UNCHANGED <<h, w, patch_size, stride, patch_indices, class_predictions,
                   pc_img>>
    /\ UNCHANGED notImgVars

\* The loop is over: return output.
ReturnOutput ==
    /\ pc_img = "stitch"
    /\ pidx > Len(patch_indices)
    /\ pc_img' = "done"
    /\ UNCHANGED <<h, w, patch_size, stride, patch_indices, class_predictions,
                   output, pidx>>
    /\ UNCHANGED notImgVars

ImgIdle ==
    /\ h = 0 /\ w = 0 /\ patch_size = 0 /\ stride = 0
    /\ patch_indices = <<>>
    /\ class_predictions = <<>>
    /\ output = <<>>
    /\ pidx = 0
    /\ pc_img = "idle"

ImgNext ==
    \/ TileZeroStride
    \/ TileNoPatch
    \/ TileAndPredict
    \/ StitchPatch
    \/ ReturnOutput

----------------------------------------------------------------------------
(* GeoCNN.prepare_sentinel_data, src/python variant; a patch is held as its *)
(* top-left offset (y, x), overlap in quarters                              *)

Overlaps == 0..4

\* stride = int(patch_size * (1 - overlap))
StrideOf(ps, ov) == (ps * (4 - ov)) \div 4

\* if len(patches) >= max_patches: break
CapReached(acc, cap) == Len(acc) >= cap

\* The inner loop over x for one y: append, then test the cap.
RECURSIVE ExtractRow(_, _, _, _)
ExtractRow(acc, y, xs, cap) ==
    IF xs = <<>> THEN acc
    ELSE LET next == Append(acc, <<y, Head(xs)>>)
         IN  IF CapReached(next, cap) THEN next
             ELSE ExtractRow(next, y, Tail(xs), cap)

\* The outer loop over y: the inner loop, then the cap test again.
RECURSIVE ExtractRows(_, _, _, _)
ExtractRows(acc, ys, xs, cap) ==
    IF ys = <<>> THEN acc
    ELSE LET next == ExtractRow(acc, Head(ys), xs, cap)
         IN  IF CapReached(next, cap) THEN next
             ELSE ExtractRows(next, Tail(ys), xs, cap)

ExtractPatches(hh, ww, ps, t, cap) ==
    ExtractRows(<<>>, PyRange(hh - ps + 1, t), PyRange(ww - ps + 1, t), cap)

PrepInit ==
    /\ height \in 1..MaxH
    /\ width \in 1..MaxW
    /\ sp_patch_size \in 1..MaxPatchSize
    /\ overlap \in Overlaps
    /\ max_patches \in 0..MaxCap
    /\ patches = <<>>
    /\ pc_prep = "start"

PrepIdle ==
    /\ height = 0
    /\ width = 0
    /\ sp_patch_size = 0
    /\ overlap = 0
    /\ max_patches = 0
    /\ patches = <<>>
    /\ pc_prep = "idle"

\* range() raises ValueError for a step of 0.
PrepareZeroStride ==
    /\ pc_prep = "start"
    /\ StrideOf(sp_patch_size, overlap) = 0
    /\ pc_prep' = "error"
    /\ UNCHANGED <<height, width, sp_patch_size, overlap, max_patches, patches>>
    /\ UNCHANGED notPrepVars

PrepareSentinelData ==
    /\ pc_prep = "start"
    /\ StrideOf(sp_patch_size, overlap) > 0
    /\ patches' = ExtractPatches(height, width, sp_patch_size,
                                 StrideOf(sp_patch_size, overlap), max_patches)
    /\ pc_prep' = "done"
    /\ UNCHANGED <<height, width, sp_patch_size, overlap, max_patches>>
    /\ UNCHANGED notPrepVars

PrepNext ==
    \/ PrepareZeroStride
    \/ PrepareSentinelData

----------------------------------------------------------------------------
(* calculate_ndvi *)

\* Band values.  A float band holds reflectances (any unit: the index is a
\* ratio); an unsigned 16-bit band holds digital numbers 0 .. 65535.
FloatVals == {-2, -1, 0, 1, 3}

U16Vals == {0, 1, 2, 65534, 65535}

BandDtypes == {"float", "uint16"}

BandVals(dt) == IF dt = "uint16" THEN U16Vals ELSE FloatVals

\* numpy's elementwise + and - keep the dtype of the operands: unsigned
\* 16-bit arithmetic wraps modulo 2^16, float arithmetic does not.
BandAdd(a, b, dt) == IF dt = "uint16" THEN (a + b) % 65536 ELSE a + b

BandSub(a, b, dt) == IF dt = "uint16" THEN (a - b) % 65536 ELSE a - b

\* A float result, held exactly as the fraction <<numerator, denominator>>.
Frac(n, d) == <<n, d>>

\* mask = (nir + red) > 0; ndvi = zeros; ndvi[mask] = (nir - red) / (nir + red)
NdviPixel(n, r, dt) ==
    IF BandAdd(n, r, dt) > 0
    THEN Frac(BandSub(n, r, dt), BandAdd(n, r, dt))
    ELSE Frac(0, 1)

calculate_ndvi(nir, red, dt) ==
    [k \in 1..Len(nir) |-> NdviPixel(nir[k], red[k], dt)]

SeqsUpTo(S, lo, hi) == UNION {[1..n -> S] : n \in lo..hi}

NdviInit ==
    /\ band_dtype \in BandDtypes
    /\ \E n \in 1..MaxPixels :
        /\ nir_band \in [1..n -> BandVals(band_dtype)]
        /\ red_band \in [1..n -> BandVals(band_dtype)]
    /\ ndvi = <<>>
    /\ pc_ndvi = "start"

NdviIdle ==
    /\ band_dtype = "float"
    /\ nir_band = <<>>
    /\ red_band = <<>>
    /\ ndvi = <<>>
    /\ pc_ndvi = "idle"

CalculateNdvi ==
    /\ pc_ndvi = "start"
    /\ ndvi' = calculate_ndvi(nir_band, red_band, band_dtype)
    /\ pc_ndvi' = "done"
    /\ UNCHANGED <<band_dtype, nir_band, red_band>>
    /\ UNCHANGED notNdviVars

NdviNext == CalculateNdvi

----------------------------------------------------------------------------
(* calculate_vegetation_health; NDVI values are held in tenths *)

GridVals == {-11, -10, 1, 2, 3, 4, 5, 6, 7, 8, 10, 11}

\* (ndvi_flat >= -1) & (ndvi_flat <= 1)
IsValidNdviUpperOnly(v) == v <= 10

IsValidNdvi(v) == v >= -10 /\ v <= 10

ValidNdvi(flat) == SelectSeq(flat, IsValidNdvi)

CountIf(s, P(_)) == Cardinality({k \in 1..Len(s) : P(s[k])})

RECURSIVE SumSeq(_)
SumSeq(s) == IF s = <<>> THEN 0 ELSE Head(s) + SumSeq(Tail(s))

\* The k-th smallest element of a non-empty sequence.
KthSmallest(s, k) ==
    CHOOSE v \in SeqToSet(s) :
        /\ Cardinality({i \in 1..Len(s) : s[i] < v}) < k
        /\ k <= Cardinality({i \in 1..Len(s) : s[i] <= v})

\* np.median: the middle element, or the mean of the two middle elements.
Median(s) ==
    LET n == Len(s)
    IN  IF n % 2 = 1
        THEN Frac(KthSmallest(s, (n + 1) \div 2), 1)
        ELSE Frac(KthSmallest(s, n \div 2) + KthSmallest(s, n \div 2 + 1), 2)

\* The five health categories.
IsUnhealthy(v) == v < 2

IsModerate(v) == v >= 2 /\ v < 4

IsHealthyInclusive(v) == v >= 4 /\ v <= 6

IsHealthy(v) == v >= 4 /\ v < 6

IsVeryHealthy(v) == v >= 6 /\ v < 8

IsExceptional(v) == v >= 8

\* np.sum(category) / ndvi_valid.size * 100
Percent(valid, P(_)) == Frac(CountIf(valid, P) * 100, Len(valid))

HealthMetrics(valid) ==
    [min_ndvi     |-> MinOf(SeqToSet(valid)),
     max_ndvi     |-> MaxOf(SeqToSet(valid)),
     average_ndvi |-> Frac(SumSeq(valid), Len(valid)),
     median_ndvi  |-> Median(valid),
     \* the standard deviation, as the variance it is the square root of
     std_ndvi     |-> [sqrt_of |->
                        Frac(Len(valid) * SumSeq([k \in 1..Len(valid) |->
                                                    valid[k] * valid[k]])
                               - SumSeq(valid) * SumSeq(valid),
                             Len(valid) * Len(valid))],
     unhealthy    |-> Percent(valid, IsUnhealthy),
     moderate     |-> Percent(valid, IsModerate),
     healthy      |-> Percent(valid, IsHealthy),
     very_healthy |-> Percent(valid, IsVeryHealthy),
     exceptional  |-> Percent(valid, IsExceptional)]

HealthInit ==
    /\ ndvi_grid \in SeqsUpTo(GridVals, 0, MaxCells)
    /\ metrics = <<>>
    /\ pc_health = "start"

HealthIdle ==
    /\ ndvi_grid = <<>>
    /\ metrics = <<>>
    /\ pc_health = "idle"

\* np.min of an empty array raises ValueError.
HealthNoValidPixel ==
    /\ pc_health = "start"
    /\ ValidNdvi(ndvi_grid) = <<>>
    /\ pc_health' = "error"
    /\ UNCHANGED <<ndvi_grid, metrics>>
    /\ UNCHANGED notHealthVars

CalculateVegetationHealth ==
    /\ pc_health = "start"
    /\ ValidNdvi(ndvi_grid) # <<>>
    /\ metrics' = HealthMetrics(ValidNdvi(ndvi_grid))
    /\ pc_health' = "done"
    /\ UNCHANGED ndvi_grid
    /\ UNCHANGED notHealthVars

HealthNext ==
    \/ HealthNoValidPixel
    \/ CalculateVegetationHealth

----------------------------------------------------------------------------
(* estimate_flowering_stage; NDVI and EVI values are held in tenths *)

\* date_str: None, or the year, month and day fields of a 'YYYY-MM-DD'
\* string, which need not form a date.
NoDateStr == [given |-> FALSE, year |-> 0, month |-> 0, day |-> 0]

DateStr(y, m, d) == [given |-> TRUE, year |-> y, month |-> m, day |-> d]

DateStrs ==
    {NoDateStr} \cup {DateStr(2024, m, d) : m \in 0..13, d \in {1, 30}}

DaysIn(y, m) ==
    IF m = 2 THEN (IF y % 4 = 0 /\ (y % 100 # 0 \/ y % 400 = 0) THEN 29 ELSE 28)
    ELSE IF m \in {4, 6, 9, 11} THEN 30
    ELSE 31

\* datetime.strptime(date_str, '%Y-%m-%d') succeeds.
IsDate(ds) ==
    /\ ds.month \in 1..12
    /\ ds.day \in 1..DaysIn(ds.year, ds.month)

\* datetime.now(): any date.
Today == {ds \in DateStrs : ds.given /\ IsDate(ds)}

\* The season of a month.
SeasonOfLate(month) ==
    IF 3 <= month /\ month <= 5 THEN "spring"
    ELSE IF 6 <= month /\ month <= 9 THEN "summer"
    ELSE IF 10 <= month /\ month <= 11 THEN "autumn"
    ELSE "winter"

SeasonOf(month) ==
    IF 3 <= month /\ month <= 5 THEN "spring"
    ELSE IF 6 <= month /\ month <= 8 THEN "summer"
    ELSE IF 9 <= month /\ month <= 11 THEN "autumn"
    ELSE "winter"

\* float(np.mean(valid)) as sum / count; the mean of no value is NaN.
MeanOf(valid) ==
    [nan |-> valid = <<>>, num |-> SumSeq(valid), den |-> Len(valid)]

\* avg > t / 10, for a mean of values in tenths; NaN compares False.
MeanOver(avg, t) == ~avg.nan /\ avg.num > t * avg.den

Entry(stage, pct) == [stage |-> stage, flowering_percent |-> pct]

Seasons == {"spring", "summer", "autumn", "winter"}

\* species_info['rosemary']
RosemaryInfo(month, avg_ndvi) ==
    [season \in Seasons |->
        CASE season = "spring" ->
                IF MeanOver(avg_ndvi, 5) THEN Entry("peak", 80)
                ELSE Entry("early", 40)
          [] season = "summer" ->
                IF MeanOver(avg_ndvi, 4) THEN Entry("late", 30)
                ELSE Entry("post", 10)
          [] season = "autumn" -> Entry("dormant", 0)
          [] OTHER ->
                IF month = 2 /\ MeanOver(avg_ndvi, 3) THEN Entry("pre", 5)
                ELSE Entry("dormant", 0)]

\* species_info['heather']
HeatherInfoByNdvi(month, avg_ndvi) ==
    [season \in Seasons |->
        CASE season = "spring" -> Entry("pre", 10)
          [] season = "summer" ->
                IF month = 8 THEN Entry("early", 30) ELSE Entry("pre", 10)
          [] season = "autumn" ->
                IF month = 9 /\ MeanOver(avg_ndvi, 5) THEN Entry("peak", 80)
                ELSE Entry("late", 40)
          [] OTHER -> Entry("dormant", 0)]

HeatherInfo(month, avg_ndvi) ==
    [season \in Seasons |->
        CASE season = "spring" -> Entry("pre", 10)
          [] season = "summer" ->
                IF month = 8 THEN Entry("early", 30) ELSE Entry("pre", 10)
          [] season = "autumn" ->
                IF month = 9 THEN Entry("peak", 80) ELSE Entry("late", 40)
          [] OTHER -> Entry("dormant", 0)]

\* species_info['eucalyptus']
EucalyptusInfo(month, avg_ndvi) ==
    [season \in Seasons |->
        CASE season = "spring" -> Entry("dormant", 0)
          [] season = "summer" -> Entry("dormant", 0)
          [] season = "autumn" ->
                IF month = 11 THEN Entry("pre", 10) ELSE Entry("dormant", 0)
          [] OTHER ->
                IF month = 12 \/ month = 1 THEN Entry("peak", 70)
                ELSE Entry("late", 30)]

Species == {"rosemary", "heather", "eucalyptus"}

SpeciesInfo(month, avg_ndvi) ==
    [species \in Species |->
        CASE species = "rosemary" -> RosemaryInfo(month, avg_ndvi)
          [] species = "heather" -> HeatherInfo(month, avg_ndvi)
          [] OTHER -> EucalyptusInfo(month, avg_ndvi)]

\* estimate_flowering_stage for a date that was parsed or taken from the
\* clock.
EstimateFloweringStage(ndvi_arr, evi_arr, date) ==
    LET month == date.month
        season == SeasonOf(month)
        avg_ndvi == MeanOf(ValidNdvi(ndvi_arr))
        avg_evi == MeanOf(ValidNdvi(evi_arr))
        species_info == SpeciesInfo(month, avg_ndvi)
    IN  [season |-> season,
         average_ndvi |-> avg_ndvi,
         average_evi |-> avg_evi,
         species_stage |->
            [species \in Species |-> species_info[species][season]]]

FlowerVals == {-11, 3, 4, 5, 6}

EviVals == {-11, 5}

NoInfo == [season |-> "none"]

FlowerInit ==
    /\ date_str \in DateStrs
    /\ fl_ndvi \in SeqsUpTo(FlowerVals, 0, MaxPixels)
    /\ fl_evi \in SeqsUpTo(EviVals, 0, MaxEviCells)
    /\ flowering_info = NoInfo
    /\ pc_flower = "start"

FlowerIdle ==
    /\ date_str = NoDateStr
    /\ fl_ndvi = <<>>
    /\ fl_evi = <<>>
    /\ flowering_info = NoInfo
    /\ pc_flower = "idle"

\* strptime raises ValueError for a string that is not a date.
FlowerBadDate ==
    /\ pc_flower = "start"
    /\ date_str.given
    /\ ~IsDate(date_str)
    /\ pc_flower' = "error"
    /\ UNCHANGED <<date_str, fl_ndvi, fl_evi, flowering_info>>
    /\ UNCHANGED notFlowerVars

\* The call with date_str None: the date is the clock's, kept in the fields
\* of date_str.
FlowerToday ==
    /\ pc_flower = "start"
    /\ ~date_str.given
    /\ \E date \in Today :
        /\ date_str' = [date EXCEPT !.given = FALSE]
        /\ flowering_info' = EstimateFloweringStage(fl_ndvi, fl_evi, date)
    /\ pc_flower' = "done"
    /\ UNCHANGED <<fl_ndvi, fl_evi>>
    /\ UNCHANGED notFlowerVars

\* The call with a date string.
FlowerOnDate ==
    /\ pc_flower = "start"
    /\ date_str.given
    /\ IsDate(date_str)
    /\ flowering_info' = EstimateFloweringStage(fl_ndvi, fl_evi, date_str)
    /\ pc_flower' = "done"
    /\ UNCHANGED <<date_str, fl_ndvi, fl_evi>>
    /\ UNCHANGED notFlowerVars

FlowerNext ==
    \/ FlowerBadDate
    \/ FlowerToday
    \/ FlowerOnDate

----------------------------------------------------------------------------
(* estimate_flowering_stage, src/python variant; it shares the variables of *)
(* the backend variant                                                      *)

PyDateStrs ==
    {NoDateStr}
        \cup {DateStr(2024, m, d) : m \in 0..13, d \in {1, 20, 21, 22, 23, 31}}

\* A date of the year as a number that orders as datetime does.
DayOfYear(month, day) == month * 100 + day

\* seasons: each with its start and end, both in date.year and in the
\* dict's order.
SeasonIntervals ==
    << [season |-> "spring", start |-> DayOfYear(3, 21), end |-> DayOfYear(6, 20)],
       [season |-> "summer", start |-> DayOfYear(6, 21), end |-> DayOfYear(9, 22)],
       [season |-> "fall", start |-> DayOfYear(9, 23), end |-> DayOfYear(12, 20)],
       [season |-> "winter", start |-> DayOfYear(12, 21), end |-> DayOfYear(3, 20)] >>

\* The loop over seasons.items() with its break, then the test for
\* date.month >= 12; "None" is Python's None.
CurrentSeason(date) ==
    LET day == DayOfYear(date.month, date.day)
        hits == {k \in 1..Len(SeasonIntervals) :
                    /\ SeasonIntervals[k].start <= day
                    /\ day <= SeasonIntervals[k].end}
    IN  IF hits # {} THEN SeasonIntervals[MinOf(hits)].season
        ELSE IF date.month >= 12 THEN "winter"
        ELSE "None"

FloweringStages ==
    [rosemary   |-> [spring |-> "peak", summer |-> "end",
                     fall |-> "vegetative", winter |-> "early"],
     heather    |-> [spring |-> "vegetative", summer |-> "early",
                     fall |-> "peak", winter |-> "end"],
     eucalyptus |-> [spring |-> "early", summer |-> "peak",
                     fall |-> "end", winter |-> "vegetative"]]

FloweringPercent == [vegetative |-> 0, early |-> 30, peak |-> 100, end |-> 50]

\* The returned dict; species_stage has an entry for every species that has
\* a stage for current_season.
EstimateFloweringStagePy(ndvi_array, evi_array, date) ==
    LET current_season == CurrentSeason(date)
    IN  [season |-> current_season,
         species_stage |->
            [species \in {sp \in DOMAIN FloweringStages :
                            current_season \in DOMAIN FloweringStages[sp]} |->
                Entry(FloweringStages[species][current_season],
                      FloweringPercent[FloweringStages[species][current_season]])]]

FlowerPyInit ==
    /\ date_str \in PyDateStrs
    /\ fl_ndvi \in SeqsUpTo(FlowerVals, 0, 1)
    /\ fl_evi \in SeqsUpTo(EviVals, 0, MaxEviCells)
    /\ flowering_info = NoInfo
    /\ pc_flower = "start"

\* strptime raises TypeError for None and ValueError for a string that is
\* not a date.
FlowerPyBadDate ==
    /\ pc_flower = "start"
    /\ ~(date_str.given /\ IsDate(date_str))
    /\ pc_flower' = "error"
    /\ UNCHANGED <<date_str, fl_ndvi, fl_evi, flowering_info>>
    /\ UNCHANGED notFlowerVars

FlowerPyOnDate ==
    /\ pc_flower = "start"
    /\ date_str.given
    /\ IsDate(date_str)
    /\ flowering_info' = EstimateFloweringStagePy(fl_ndvi, fl_evi, date_str)
    /\ pc_flower' = "done"
    /\ UNCHANGED <<date_str, fl_ndvi, fl_evi>>
    /\ UNCHANGED notFlowerVars

FlowerPyNext ==
    \/ FlowerPyBadDate
    \/ FlowerPyOnDate

----------------------------------------------------------------------------
(* The analyze-area handlers.  A point is <<x, y>> as shapely takes it, in  *)
(* hundredths of a degree, near the origin, where cos of the centroid's y   *)
(* is 1 to within 4e-7.                                                     *)

AreaTypes == {"", "polygon", "rectangle", "circle"}

PointVals == {<<0, 0>>, <<1, 0>>, <<0, 1>>, <<5, 0>>, <<5, 5>>}

Routes == {"flask", "fastapi"}

\* Twice the area of the ring through the points, closed back to the first
\* (what shapely's Polygon(...).area gives, times two), in cells of 0.01
\* degree by 0.01 degree.
RECURSIVE ShoelaceSum(_, _)
ShoelaceSum(pts, k) ==
    IF k > Len(pts) THEN 0
    ELSE LET a == pts[k]
             b == pts[IF k = Len(pts) THEN 1 ELSE k + 1]
         IN  a[1] * b[2] - b[1] * a[2] + ShoelaceSum(pts, k + 1)

Area2(pts) == AbsI(ShoelaceSum(pts, 1))

\* shapely.geometry.Polygon(coordinates) raises ValueError.
PolygonRaises(pts) == Len(pts) < 3

\* calculate_area_in_m2(polygon) / 10000 > 1000, for the doubled cell count:
\* a cell is 1110 m by 1110 m, 123.21 hectares.
TooLargeKm2(area2) == 12321 * area2 > 200 * 1000 * 100

TooLarge(area2) == 12321 * area2 > 200 * 1000

\* Coordinates(latitude=point[0], longitude=point[1]) passes validation.
ValidCoordinates(pt) ==
    /\ -9000 <= pt[1] /\ pt[1] <= 9000
    /\ -18000 <= pt[2] /\ pt[2] <= 18000

\* MLService._extract_ml_features_from_geo: the keys of the mapping it
\* builds and where each value comes from; every value of the analysis is
\* held as one number.
GeoFeatureSources ==
    [ndvi            |-> "ndvi",
     evi             |-> "evi",
     water_distance  |-> "water_proximity_score",
     avg_slope       |-> "slope_avg",
     elevation_range |-> "elevation_range",
     avg_temp        |-> "average_temperature",
     rainfall        |-> "rainfall_mm_year",
     wind_speed      |-> "wind_speed_avg",
     forest_pct      |-> "forest",
     crop_pct        |-> "cropland",
     grassland_pct   |-> "grassland",
     urban_pct       |-> "urban",
     water_pct       |-> "water"]

\* The analyses GeospatialService.analyze_area may return.
GeoAnalyses ==
    {[q \in {GeoFeatureSources[k] : k \in DOMAIN GeoFeatureSources} |-> v] :
        v \in {0, 1}}

ExtractMlFeaturesFromGeo(geo_analysis) ==
    [k \in DOMAIN GeoFeatureSources |->
        IF k = "water_distance" THEN 1 - geo_analysis[GeoFeatureSources[k]]
        ELSE geo_analysis[GeoFeatureSources[k]]]

NoResponse == [status |-> 0, error |-> ""]

Response(status, error) == [status |-> status, error |-> error]

ReqInit ==
    /\ route \in Routes
    /\ area_type \in AreaTypes
    /\ coordinates \in SeqsUpTo(PointVals, 0, MaxPoints)
    /\ calls = <<>>
    /\ response = NoResponse
    /\ ml_features = <<>>
    /\ temp_dirs = {}
    /\ pc_req = "start"

ReqIdle ==
    /\ route = "none"
    /\ area_type = ""
    /\ coordinates = <<>>
    /\ calls = <<>>
    /\ response = NoResponse
    /\ ml_features = <<>>
    /\ temp_dirs = {}
    /\ pc_req = "idle"

\* One step of a handler: where it goes on, what it has called, and the
\* answer when it returns.
Goto(pc, new_calls) ==
    /\ pc_req' = pc
    /\ calls' = calls \o new_calls
    /\ response' = response
    /\ UNCHANGED <<route, area_type, coordinates>>
    /\ UNCHANGED notReqVars

Answer(status, error, new_calls) ==
    /\ pc_req' = "done"
    /\ calls' = calls \o new_calls
    /\ response' = Response(status, error)
    /\ UNCHANGED <<route, area_type, coordinates>>
    /\ UNCHANGED notReqVars

\* api.py 189-198: the parameters and the test for missing ones.
FlaskParse ==
    /\ route = "flask" /\ pc_req = "start"
    /\ IF area_type = "" \/ coordinates = <<>>
       THEN Answer(400, "missing type or coordinates", <<>>)
       ELSE Goto("polygon", <<>>)
    /\ UNCHANGED <<ml_features, temp_dirs>>

\* api.py 201-211: the polygon; a ValueError of shapely goes to the outer
\* handler (351-355).
FlaskPolygon ==
    /\ route = "flask" /\ pc_req = "polygon"
    /\ IF area_type \notin {"polygon", "rectangle"}
       THEN Answer(400, "unsupported type", <<>>)
       ELSE IF PolygonRaises(coordinates)
       THEN Answer(500, "unexpected error", <<>>)
       ELSE Goto("area", <<>>)
    /\ UNCHANGED <<ml_features, temp_dirs>>

\* api.py 215-223: the area and the size limit.
FlaskArea ==
    /\ route = "flask" /\ pc_req = "area"
    /\ IF TooLarge(Area2(coordinates))
       THEN Answer(400, "area too large", <<>>)
       ELSE Goto("fetch", <<>>)
    /\ UNCHANGED <<ml_features, temp_dirs>>

\* api.py 228-234: fetch_sentinel_image (393-452), which makes a directory
\* for the image and returns the image's path; it may raise, in mkdtemp or
\* after it.
FlaskFetch ==
    /\ route = "flask" /\ pc_req = "fetch"
    /\ \/ /\ Goto("model", <<"fetch_sentinel_image">>)
          /\ temp_dirs' = temp_dirs \cup {"sentinel_image"}
       \/ /\ Answer(500, "fetch failed", <<"fetch_sentinel_image">>)
          /\ temp_dirs' \in {temp_dirs, temp_dirs \cup {"sentinel_image"}}
    /\ UNCHANGED ml_features

\* api.py 237-241: GeoCNN.load, or a new GeoCNN when it raises.
FlaskLoadModel ==
    /\ route = "flask" /\ pc_req = "model"
    /\ \/ Goto("mkdtemp", <<"GeoCNN.load">>)
       \/ Goto("mkdtemp", <<"GeoCNN.load", "GeoCNN">>)
    /\ UNCHANGED <<ml_features, temp_dirs>>

\* api.py 244-245: the directory for outputs; an error of mkdtemp goes to
\* the outer handler (351-355).
FlaskMakeTempDir ==
    /\ route = "flask" /\ pc_req = "mkdtemp"
    /\ \/ /\ Goto("analyze", <<>>)
          /\ temp_dirs' = temp_dirs \cup {"outputs"}
       \/ /\ Answer(500, "unexpected error", <<>>)
          /\ temp_dirs' = temp_dirs
    /\ UNCHANGED ml_features

\* api.py 248-349: the analysis; it may raise before or after predict_image;
\* the finally clause removes the directory for outputs on every path.
FlaskAnalyze ==
    /\ route = "flask" /\ pc_req = "analyze"
    /\ \/ Answer(500, "analysis error", <<>>)
       \/ Answer(500, "analysis error", <<"predict_image">>)
       \/ Answer(200, "", <<"predict_image">>)
    /\ temp_dirs' = temp_dirs \ {"outputs"}
    /\ UNCHANGED ml_features

\* vegetation_routes.py 57-59: the status answered when the try block raises
\* HTTPException(status_code): except Exception catches it, as HTTPException
\* is an Exception, and raises HTTPException(500) in its place.
RaisedInTry(status_code) == 500

\* vegetation_routes.py 32-36 and 57-59: the HTTPException(400) for missing
\* parameters is raised inside the try and caught by its except Exception,
\* which raises HTTPException(500).
RouteParse ==
    /\ route = "fastapi" /\ pc_req = "start"
    /\ IF area_type = "" \/ coordinates = <<>>
       THEN Answer(RaisedInTry(400), "missing type or coordinates", <<>>)
       ELSE Goto("area", <<>>)
    /\ UNCHANGED <<ml_features, temp_dirs>>

\* vegetation_routes.py 39-49: Coordinates and Area objects.
RouteBuildArea ==
    /\ route = "fastapi" /\ pc_req = "area"
    /\ IF \E k \in 1..Len(coordinates) : ~ValidCoordinates(coordinates[k])
       THEN Answer(500, "validation error", <<>>)
       ELSE Goto("analyze", <<>>)
    /\ UNCHANGED <<ml_features, temp_dirs>>

\* vegetation_routes.py 53-59 with MLService.analyze_area_potential
\* (ml_service.py 37-63): the geospatial analysis, explain_prediction, the
\* combined results; explain_prediction may raise.
RouteAnalyze ==
    /\ route = "fastapi" /\ pc_req = "analyze"
    /\ \E geo_analysis \in GeoAnalyses :
        ml_features' = ExtractMlFeaturesFromGeo(geo_analysis)
    /\ UNCHANGED temp_dirs
    /\ \/ Answer(200, "", <<"geo_service.analyze_area", "explain_prediction">>)
       \/ Answer(500, "analysis error",
                 <<"geo_service.analyze_area", "explain_prediction">>)

ReqNext ==
    \/ FlaskParse
    \/ FlaskPolygon
    \/ FlaskArea
    \/ FlaskFetch
    \/ FlaskLoadModel
    \/ FlaskMakeTempDir
    \/ FlaskAnalyze
    \/ RouteParse
    \/ RouteBuildArea
    \/ RouteAnalyze

----------------------------------------------------------------------------
(* GeospatialService._calculate_water_proximity_score; distances in tenths *)
(* of a kilometre                                                           *)

\* WaterSource.distance_from_center_km: Optional[float] = None
NoDistance == [given |-> FALSE, km10 |-> 0]

Distance(d) == [given |-> TRUE, km10 |-> d]

DistanceVals == {0, 8, 30, 31}

WaterSourceVals == {NoDistance} \cup {Distance(d) : d \in DistanceVals}

\* ws.distance_from_center_km or 100: None and 0.0 are both falsy.
DistanceOr100(ws) == IF ws.given /\ ws.km10 # 0 THEN ws.km10 ELSE 1000

CalculateWaterProximityScore(sources) ==
    IF sources = <<>> THEN Frac(0, 1)
    ELSE LET min_distance ==
                MinOf({DistanceOr100(sources[k]) : k \in 1..Len(sources)})
         IN  IF min_distance > 30 THEN Frac(1, 5)
             ELSE Frac(300 - 8 * min_distance, 300)

WaterInit ==
    /\ water_sources \in SeqsUpTo(WaterSourceVals, 0, MaxSources)
    /\ water_proximity = Frac(0, 1)
    /\ pc_water = "start"

WaterIdle ==
    /\ water_sources = <<>>
    /\ water_proximity = Frac(0, 1)
    /\ pc_water = "idle"

WaterProximityCall ==
    /\ pc_water = "start"
    /\ water_proximity' = CalculateWaterProximityScore(water_sources)
    /\ pc_water' = "done"
    /\ UNCHANGED water_sources
    /\ UNCHANGED notWaterVars

WaterNext == WaterProximityCall

----------------------------------------------------------------------------
(* ApiaryPotentialModel: the scaler, the regressor and the bundle file *)

\* self.feature_names as __init__ sets it.
DefaultFeatureNames ==
    <<"ndvi", "evi", "forest_pct", "shrubland_pct", "grassland_pct",
      "cropland_pct", "urban_pct", "water_pct", "elevation", "slope",
      "temp_avg", "rainfall_mm", "wind_speed", "water_distance_km">>

\* The same names in another order, as a bundle saved by another version of
\* the class may hold them.
SwappedFeatureNames ==
    [i \in 1..14 |->
        IF i = 1 THEN DefaultFeatureNames[14]
        ELSE IF i = 14 THEN DefaultFeatureNames[1]
        ELSE DefaultFeatureNames[i]]

\* Position of a name in a list of names (0 when it is not there).
IndexOf(names, name) ==
    IF \E i \in 1..Len(names) : names[i] = name
    THEN MinOf({i \in 1..Len(names) : names[i] = name})
    ELSE 0

\* Comparison of two fractions with positive denominators.
FracLeq(a, b) == a[1] * b[2] <= b[1] * a[2]

\* The largest k with k * k <= v.
ISqrt(v) == MaxOf({k \in 0..v : k * k <= v})

\* StandardScaler(): not fitted yet.
UnfittedScaler == [kind |-> "unfitted"]

\* StandardScaler.fit over the rows X (a list of lists): per column the mean
\* sum / n and the standard deviation sqrt(n * sumsq - sum^2) / n, held as
\* n, sum and n * std (rounded down); a zero deviation scales by 1.
ScalerFit(X) ==
    LET n == Len(X)
        cols == 1..Len(X[1])
        sum == [c \in cols |-> SumSeq([r \in 1..n |-> X[r][c]])]
        sumsq == [c \in cols |-> SumSeq([r \in 1..n |-> X[r][c] * X[r][c]])]
    IN  [kind |-> "fitted",
         n    |-> n,
         sum  |-> sum,
         nstd |-> [c \in cols |-> ISqrt(n * sumsq[c] - sum[c] * sum[c])]]

\* StandardScaler.transform of one row: (x - mean) / scale per column.
ScalerTransform(sc, row) ==
    [c \in 1..Len(row) |->
        Frac(sc.n * row[c] - sc.sum[c],
             IF sc.nstd[c] = 0 THEN sc.n ELSE sc.nstd[c])]

\* self.model = None
NoModel == [kind |-> "None"]

\* RandomForestRegressor(random_state=42).fit(Z, y): a function of the
\* training set alone.  The forest is held as one split: the first column
\* whose scaled values differ, cut at its smallest value, each side
\* predicting the mean target of its rows.
ForestFit(Z, y) ==
    LET rows == 1..Len(Z)
        cols == 1..Len(Z[1])
        varying == {c \in cols : \E r \in rows : Z[r][c] # Z[1][c]}
        feat == IF varying = {} THEN 1 ELSE MinOf(varying)
        thr == CHOOSE t \in {Z[r][feat] : r \in rows} :
                    \A r \in rows : FracLeq(t, Z[r][feat])
        left == {r \in rows : FracLeq(Z[r][feat], thr)}
        right == rows \ left
        mean(R) == SumSeq([k \in 1..Len(y) |-> IF k \in R THEN y[k] ELSE 0])
                      \div Cardinality(R)
        lo == mean(left)
        hi == IF right = {} THEN mean(left) ELSE mean(right)
    IN  [kind |-> "forest",
         feat |-> feat,
         thr  |-> thr,
         lo   |-> lo,
         hi   |-> hi,
         \* impurity decrease per column, in percent
         imp  |-> [c \in cols |-> IF c = feat /\ lo # hi THEN 100 ELSE 0]]

\* model.predict(X_scaled)[0]
ForestPredict(m, z) == IF FracLeq(z[m.feat], m.thr) THEN m.lo ELSE m.hi

\* model.feature_importances_
ForestImportances(m) == m.imp

\* np.clip(score, 0, 100)
ClipUpperOnly(x, lo, hi) == IF x > hi THEN hi ELSE x

Clip(x, lo, hi) == IF x < lo THEN lo ELSE IF x > hi THEN hi ELSE x

\* features.get(name, 0.0)
DictGetOr(d, key, default) == IF key \in DOMAIN d THEN d[key] ELSE default

Ok(v) == [ok |-> TRUE, value |-> v]

Raise(e) == [ok |-> FALSE, value |-> e]

\* ApiaryPotentialModel.predict on an instance with the fields of self.
PredictZeroWhenAbsent(self, features) ==
    IF self.model.kind = "None" THEN Ok(0)
    ELSE IF self.scaler.kind = "unfitted" THEN Raise("NotFittedError")
    ELSE Ok(Clip(ForestPredict(self.model,
                    ScalerTransform(self.scaler,
                        [i \in 1..Len(self.feature_names) |->
                            DictGetOr(features, self.feature_names[i], 0)])),
                 0, 100))

Predict(self, features) ==
    IF self.model.kind = "None" THEN Raise("ValueError: not trained")
    ELSE IF self.scaler.kind = "unfitted" THEN Raise("NotFittedError")
    ELSE IF Len(self.feature_names) # Len(self.scaler.sum)
         THEN Raise("ValueError: n_features")
    ELSE Ok(Clip(ForestPredict(self.model,
                    ScalerTransform(self.scaler,
                        [i \in 1..Len(self.feature_names) |->
                            DictGetOr(features, self.feature_names[i], 0)])),
                 0, 100))

\* get_feature_importances: zip(feature_names, importances) as a dict; zip
\* stops at the shorter of the two and a repeated name keeps its last value.
GetFeatureImportancesDrifting(self) ==
    IF self.model.kind = "None" THEN Raise("ValueError: not trained")
    ELSE Ok([name \in SeqToSet(self.feature_names) |->
                ForestImportances(self.model)[IndexOf(self.feature_names, name)]
                    + (IF last.op = "predict" THEN 1 ELSE 0)])

GetFeatureImportances(self) ==
    IF self.model.kind = "None" THEN Raise("ValueError: not trained")
    ELSE LET importances == ForestImportances(self.model)
             n == MinOf({Len(self.feature_names), Len(importances)})
         IN  Ok([name \in {self.feature_names[i] : i \in 1..n} |->
                    importances[MaxOf({i \in 1..n :
                                        self.feature_names[i] = name})]])

\* One step of sorted(..., key=lambda x: x[2], reverse=True): x goes behind
\* every element whose key is at least its own, so equal keys keep the order
\* in which they came (the sort is stable, reverse=True included).
InsertBeforeEqual(sorted, x) ==
    LET bigger == {k \in 1..Len(sorted) : sorted[k][3] > x[3]}
        at == IF bigger = {} THEN 0 ELSE MaxOf(bigger)
    IN  SubSeq(sorted, 1, at) \o <<x>> \o SubSeq(sorted, at + 1, Len(sorted))

InsertByImportance(sorted, x) ==
    LET notless == {k \in 1..Len(sorted) : sorted[k][3] >= x[3]}
        at == IF notless = {} THEN 0 ELSE MaxOf(notless)
    IN  SubSeq(sorted, 1, at) \o <<x>> \o SubSeq(sorted, at + 1, Len(sorted))

RECURSIVE SortedByImportance(_)
SortedByImportance(triples) ==
    IF triples = <<>> THEN <<>>
    ELSE InsertByImportance(
            SortedByImportance(SubSeq(triples, 1, Len(triples) - 1)),
            triples[Len(triples)])

\* The factor sentence of one top feature; value is in units of 1.0.  The
\* last branch formats the feature's name into the sentence.
FactorText(name, value) ==
    IF name = "ndvi" /\ 10 * value > 6 THEN "high vegetation density"
    ELSE IF name = "water_distance_km" /\ 10 * value < 3 THEN "water nearby"
    ELSE IF name = "urban_pct" /\ 10 * value > 4 THEN "high urbanisation"
    ELSE IF name = "forest_pct" /\ 10 * value > 5 THEN "good forest cover"
    ELSE IF name = "temp_avg"
         THEN IF 4 <= 10 * value /\ 10 * value <= 6
              THEN "temperature adequate" ELSE "temperature not ideal"
    ELSE "significant impact of " \o name

\* _generate_text_explanation
GenerateTextExplanation(score) ==
    IF score >= 85 THEN "excellent"
    ELSE IF score >= 70 THEN "good"
    ELSE IF score >= 50 THEN "moderate"
    ELSE IF score >= 30 THEN "limited"
    ELSE "poor"

\* sorted_features[:5]
TopN == 5

\* explain_prediction on an instance with the fields of self.
ExplainPrediction(self, features) ==
    LET score == Predict(self, features)
        importances == GetFeatureImportances(self)
    IN  IF ~score.ok THEN score
        ELSE IF ~importances.ok THEN importances
        ELSE IF \E i \in 1..Len(self.feature_names) :
                    self.feature_names[i] \notin DOMAIN importances.value
             THEN Raise("KeyError")
        ELSE LET sorted_features ==
                    SortedByImportance(
                        [i \in 1..Len(self.feature_names) |->
                            <<self.feature_names[i],
                              DictGetOr(features, self.feature_names[i], 0),
                              importances.value[self.feature_names[i]]>>])
                 top == SubSeq(sorted_features, 1,
                               MinOf({TopN, Len(sorted_features)}))
             IN  Ok([score |-> score.value,
                     explanation |-> GenerateTextExplanation(score.value),
                     top_factors |->
                        [k \in 1..Len(top) |->
                            [factor |-> FactorText(top[k][1], top[k][2]),
                             feature |-> top[k][1],
                             value |-> top[k][2],
                             importance |-> top[k][3]]]])

\* pickle.dump of a dict: the protocol header, the items in insertion order,
\* the stop opcode.
Pickle(items) == << <<"PROTO", 4>> >> \o items \o << <<"STOP", 0>> >>

WellFormed(bytes) ==
    /\ Len(bytes) >= 2
    /\ bytes[1][1] = "PROTO"
    /\ bytes[Len(bytes)][1] = "STOP"

\* pickle.load of a well-formed stream: the dict, as its items.
Unpickle(bytes) == SubSeq(bytes, 2, Len(bytes) - 1)

HasKey(items, key) == \E k \in 1..Len(items) : items[k][1] = key

\* model_data[key]
ItemOf(items, key) ==
    items[MinOf({k \in 1..Len(items) : items[k][1] = key})][2]

\* The dict _save_model pickles.
ModelData(self, timestamp) ==
    << <<"model", self.model>>,
       <<"scaler", self.scaler>>,
       <<"feature_names", self.feature_names>>,
       <<"timestamp", timestamp>> >>

----------------------------------------------------------------------------
(* ApiaryPotentialModel: loading, fallback training, construction *)

\* The fields __init__ sets before it loads or trains.
FreshInstance ==
    [model |-> NoModel, scaler |-> UnfittedScaler,
     feature_names |-> DefaultFeatureNames]

Fields(self) ==
    [model |-> self.model, scaler |-> self.scaler,
     feature_names |-> self.feature_names]

NoFile == [exists |-> FALSE, bytes |-> <<>>]

File(bytes) == [exists |-> TRUE, bytes |-> bytes]

\* _load_model: the three assignments in order; a failing step raises and
\* keeps what was assigned before it.
LoadModel(self, file) ==
    IF ~file.exists \/ ~WellFormed(file.bytes)
    THEN [self |-> self, raised |-> TRUE]
    ELSE LET model_data == Unpickle(file.bytes)
         IN  IF ~HasKey(model_data, "model")
             THEN [self |-> self, raised |-> TRUE]
             ELSE IF ~HasKey(model_data, "scaler")
             THEN [self |-> [self EXCEPT !.model = ItemOf(model_data, "model")],
                   raised |-> TRUE]
             ELSE IF ~HasKey(model_data, "feature_names")
             THEN [self |-> [self EXCEPT
                                !.model = ItemOf(model_data, "model"),
                                !.scaler = ItemOf(model_data, "scaler")],
                   raised |-> TRUE]
             ELSE [self |-> [model |-> ItemOf(model_data, "model"),
                             scaler |-> ItemOf(model_data, "scaler"),
                             feature_names |->
                                ItemOf(model_data, "feature_names")],
                   raised |-> FALSE]

\* np.random.rand: each row of X is one of a few draws, a value per column.
MixedRow(ncols) == [c \in 1..ncols |-> c % 2]

HighRow(ncols) == [c \in 1..ncols |-> 1]

RandRows(ncols) == {MixedRow(ncols), HighRow(ncols)}

\* np.random.normal(0, 5): one of a few draws.
NoiseVals == {-5, 5}

\* What the process-global generator, never seeded, may draw for
\* _generate_dummy_data(n_samples).
RandomDraws(ncols) ==
    {[X |-> X, noise |-> noise] :
        X \in [1..NSamples -> RandRows(ncols)],
        noise \in [1..NSamples -> NoiseVals]}

\* 20 - |temp_avg - 0.5| * 30
TempScore(te) == 20 - (AbsI(2 * te - 1) * 30) \div 2

\* The target of one row: the rule-based score, clipped, plus noise, clipped.
DummyTarget(names, row, noise) ==
    LET col(name) == row[IndexOf(names, name)]
        veg_score == col("ndvi") * 30 + col("evi") * 20
        land_score == col("forest_pct") * 15 + col("shrubland_pct") * 25
                        + col("grassland_pct") * 10 - col("urban_pct") * 40
        temp_score == TempScore(col("temp_avg"))
        water_score == 25 * (1 - col("water_distance_km"))
    IN  Clip(Clip(veg_score + land_score + temp_score + water_score, 0, 100)
               + noise, 0, 100)

\* _generate_dummy_data for one draw of the generator.
GenerateDummyData(names, draw) ==
    [X |-> draw.X,
     y |-> [r \in 1..Len(draw.X) |-> DummyTarget(names, draw.X[r], draw.noise[r])]]

\* _train_demo_model up to the save: fit the scaler, fit the forest.
TrainDemoModel(self, data) ==
    LET sc == ScalerFit(data.X)
        Z == [r \in 1..Len(data.X) |-> ScalerTransform(sc, data.X[r])]
    IN  [model |-> ForestFit(Z, data.y),
         scaler |-> sc,
         feature_names |-> self.feature_names]

\* The feature-name lists an instance can hold.
FeatureNameLists == {DefaultFeatureNames, SwappedFeatureNames}

\* Every outcome of _generate_dummy_data followed by the two fits, per
\* feature-name list of the instance that trains.
FallbackRuns ==
    [names \in FeatureNameLists |->
        {[data |-> GenerateDummyData(names, draw),
          trained |-> TrainDemoModel([FreshInstance EXCEPT
                                        !.feature_names = names],
                                     GenerateDummyData(names, draw))] :
            draw \in RandomDraws(Len(names))}]

\* datetime.now().isoformat()
Timestamps == {"t1", "t2"}

\* _save_model: the file after the dump.
SaveStaleScaler(self, timestamp) ==
    File(Pickle(ModelData([self EXCEPT !.scaler = UnfittedScaler], timestamp)))

SaveModel(self, timestamp) == File(Pickle(ModelData(self, timestamp)))

\* Bundles found at model_path that this process did not write: a model
\* trained elsewhere whose raw output leaves [0, 100], one with another
\* feature order, one that holds no model, and files that fail to load at
\* each step of _load_model.
ElsewhereScaler ==
    [kind |-> "fitted", n |-> 2,
     sum |-> [c \in 1..14 |-> 1], nstd |-> [c \in 1..14 |-> 1]]

\* Its importances tie within the five largest, across the cut after the
\* fifth, and among the smallest.
ElsewhereModel ==
    [kind |-> "forest", feat |-> 1, thr |-> Frac(0, 1), lo |-> -50, hi |-> 150,
     imp |-> <<3, 7, 7, 0, 9, 1, 7, 2, 0, 7, 9, 5, 0, 6>>]

\* A model whose importances are all equal.
ElsewhereFlatModel ==
    [kind |-> "forest", feat |-> 14, thr |-> Frac(0, 1), lo |-> 40, hi |-> 90,
     imp |-> [c \in 1..14 |-> 7]]

ElsewhereInstance(names) ==
    [model |-> ElsewhereModel, scaler |-> ElsewhereScaler,
     feature_names |-> names]

ElsewhereFlatInstance ==
    [model |-> ElsewhereFlatModel, scaler |-> ElsewhereScaler,
     feature_names |-> DefaultFeatureNames]

FoundFiles ==
    {NoFile,
     File(Pickle(ModelData(ElsewhereInstance(DefaultFeatureNames), "t0"))),
     File(Pickle(ModelData(ElsewhereInstance(SwappedFeatureNames), "t0"))),
     File(Pickle(ModelData(ElsewhereFlatInstance, "t0"))),
     \* a bundle whose 'model' is None
     File(Pickle(ModelData([ElsewhereFlatInstance EXCEPT !.model = NoModel],
                           "t0"))),
     \* truncated stream
     File(<< <<"PROTO", 4>>, <<"model", ElsewhereModel>> >>),
     \* no 'model' key
     File(Pickle(<< <<"timestamp", "t0">> >>)),
     \* no 'scaler' key
     File(Pickle(<< <<"model", ElsewhereModel>> >>)),
     \* no 'feature_names' key
     File(Pickle(<< <<"model", ElsewhereModel>>,
                    <<"scaler", ElsewhereScaler>> >>))}

\* Feature mappings passed to predict: all features at one value, one
\* feature changed, one feature missing.
ProbedNames == {"ndvi", "temp_avg", "water_distance_km"}

FeatureInputs ==
    LET names == SeqToSet(DefaultFeatureNames)
        base(v) == [n \in names |-> v]
    IN  {base(v) : v \in {0, 1}}
        \cup {[base(v) EXCEPT ![n] = 1 - v] : v \in {0, 1}, n \in ProbedNames}
        \cup {[m \in names \ {n} |-> 1] : n \in ProbedNames}

\* Feature mappings passed to explain_prediction: all features at 0, and
\* those that have 1 for every feature but ndvi.
ExplainInputs ==
    {f \in FeatureInputs :
        \A n \in DOMAIN f : n # "ndvi" => f[n] = 1 \/ f = [m \in DOMAIN f |-> 0]}

NoCall == [op |-> "none", features |-> <<>>, result |-> Ok(0)]

Call(op, features, result) ==
    [op |-> op, features |-> features, result |-> result]

NoData == [X |-> <<>>, y |-> <<>>]

ApiaryInit ==
    /\ disk \in FoundFiles
    /\ disk_writer = "env"
    /\ cur = [constructed |-> FALSE, how |-> "none"] @@ FreshInstance
    /\ prev_how = "none"
    /\ train_data = NoData
    /\ last = NoCall
    /\ explained = NoCall
    /\ init_pc = "none"

ApiaryIdle ==
    /\ disk = NoFile
    /\ disk_writer = "env"
    /\ cur = [constructed |-> FALSE, how |-> "none"] @@ FreshInstance
    /\ prev_how = "none"
    /\ train_data = NoData
    /\ last = NoCall
    /\ explained = NoCall
    /\ init_pc = "none"

Instance(fields, how) == [constructed |-> TRUE, how |-> how] @@ fields

\* __init__ when the file exists and _load_model succeeds.
ConstructLoad ==
    /\ disk.exists
    /\ ~LoadModel(FreshInstance, disk).raised
    /\ cur' = Instance(LoadModel(FreshInstance, disk).self, "loaded")
    /\ prev_how' = cur.how
    /\ disk_writer' = IF disk_writer = "env" THEN "env" ELSE "earlier"
    /\ train_data' = NoData
    /\ last' = Call("construct", <<>>, Ok(0))
    /\ explained' = NoCall
    /\ init_pc' = "done"
    /\ UNCHANGED disk
    /\ UNCHANGED notApiaryVars

\* __init__ when the file is absent, or _load_model raises: train and save.
ConstructTrain ==
    /\ ~disk.exists \/ LoadModel(FreshInstance, disk).raised
    /\ \E ts \in Timestamps :
        LET start == IF disk.exists THEN LoadModel(FreshInstance, disk).self
                     ELSE FreshInstance
        IN  \E run \in FallbackRuns[start.feature_names] :
                /\ cur' = Instance(run.trained,
                                   IF disk.exists THEN "trained_after_error"
                                   ELSE "trained_absent")
                /\ train_data' = run.data
                /\ disk' = SaveModel(run.trained, ts)
    /\ prev_how' = cur.how
    /\ disk_writer' = "self"
    /\ last' = Call("construct", <<>>, Ok(0))
    /\ explained' = NoCall
    /\ init_pc' = "done"
    /\ UNCHANGED notApiaryVars

\* _save_model on the instance.
SaveModelCall ==
    /\ cur.constructed
    /\ \E ts \in Timestamps : disk' = SaveModel(Fields(cur), ts)
    /\ disk_writer' = "self"
    /\ last' = Call("save", <<>>, Ok(0))
    /\ UNCHANGED <<cur, prev_how, train_data, explained, init_pc>>
    /\ UNCHANGED notApiaryVars

\* _load_model on the instance.
LoadModelCall ==
    /\ cur.constructed
    /\ LET r == LoadModel(Fields(cur), disk)
       IN  /\ cur' = Instance(r.self, cur.how)
           /\ last' = Call("load", <<>>,
                           IF r.raised THEN Raise("load failed") ELSE Ok(0))
    /\ explained' = NoCall
    /\ UNCHANGED <<disk, disk_writer, prev_how, train_data, init_pc>>
    /\ UNCHANGED notApiaryVars

\* predict(features) on the instance.
PredictCall ==
    /\ cur.constructed
    /\ \E features \in FeatureInputs :
        last' = Call("predict", features, Predict(cur, features))
    /\ UNCHANGED <<disk, disk_writer, cur, prev_how, train_data, explained,
                   init_pc>>
    /\ UNCHANGED notApiaryVars

\* get_feature_importances() on the instance.
ImportancesCall ==
    /\ cur.constructed
    /\ last' = Call("importances", <<>>, GetFeatureImportances(cur))
    /\ UNCHANGED <<disk, disk_writer, cur, prev_how, train_data, explained,
                   init_pc>>
    /\ UNCHANGED notApiaryVars

\* explain_prediction(features) on the instance; the caller may keep the
\* call and its result to compare a later one with.
ExplainCall ==
    /\ cur.constructed
    /\ \E features \in ExplainInputs :
        /\ last' = Call("explain", features, ExplainPrediction(cur, features))
        /\ explained' \in IF explained = NoCall THEN {explained, last'}
                          ELSE {explained}
    /\ UNCHANGED <<disk, disk_writer, cur, prev_how, train_data, init_pc>>
    /\ UNCHANGED notApiaryVars

\* The environment removes the file (a fresh deployment, a cleaned cache).
RemoveFile ==
    /\ disk.exists
    /\ disk' = NoFile
    /\ disk_writer' = "env"
    /\ last' = Call("remove", <<>>, Ok(0))
    /\ UNCHANGED <<cur, prev_how, train_data, explained, init_pc>>
    /\ UNCHANGED notApiaryVars

ApiaryNext ==
    \/ ConstructLoad
    \/ ConstructTrain
    \/ SaveModelCall
    \/ LoadModelCall
    \/ PredictCall
    \/ RemoveFile

\* The deployed service: vegetation_routes binds ml_service = MLService()
\* when it is imported, MLService() constructs the instance, and the request
\* handlers reach the instance through that name.  Here __init__ runs one
\* statement group per step, on cur, and cur.constructed turns TRUE when the
\* name is bound.

\* What __init__ goes on with when the load was not possible.
ToTraining(self, how) == [self EXCEPT !.how = how]

\* Lines 28-38: the field defaults and the test for the file.
InitFieldsPublishing ==
    /\ init_pc = "none"
    /\ cur' = [constructed |-> TRUE, how |-> IF disk.exists THEN "none"
                                             ELSE "trained_absent"]
                @@ FreshInstance
    /\ init_pc' = IF disk.exists THEN "open" ELSE "fit_scaler"
    /\ UNCHANGED <<disk, disk_writer, prev_how, train_data, last, explained>>
    /\ UNCHANGED notApiaryVars

InitFields ==
    /\ init_pc = "none"
    /\ cur' = [constructed |-> FALSE, how |-> IF disk.exists THEN "none"
                                              ELSE "trained_absent"]
                @@ FreshInstance
    /\ init_pc' = IF disk.exists THEN "open" ELSE "fit_scaler"
    /\ UNCHANGED <<disk, disk_writer, prev_how, train_data, last, explained>>
    /\ UNCHANGED notApiaryVars

\* _load_model, lines 126-127: open and unpickle; an exception goes to the
\* handler of __init__, which trains.
InitUnpickle ==
    /\ init_pc = "open"
    /\ IF WellFormed(disk.bytes)
       THEN init_pc' = "model" /\ cur' = cur
       ELSE /\ init_pc' = "fit_scaler"
            /\ cur' = ToTraining(cur, "trained_after_error")
    /\ UNCHANGED <<disk, disk_writer, prev_how, train_data, last, explained>>
    /\ UNCHANGED notApiaryVars

\* _load_model, lines 129-131: one assignment from model_data per step; a
\* missing key raises and leaves the earlier assignments in place.
InitLoadItem ==
    /\ init_pc \in {"model", "scaler", "feature_names"}
    /\ LET model_data == Unpickle(disk.bytes)
       IN  IF HasKey(model_data, init_pc)
           THEN /\ cur' = [cur EXCEPT ![init_pc] = ItemOf(model_data, init_pc),
                                      !.how = IF init_pc = "feature_names"
                                              THEN "loaded" ELSE @]
                /\ init_pc' = CASE init_pc = "model" -> "scaler"
                                [] init_pc = "scaler" -> "feature_names"
                                [] OTHER -> "return"
           ELSE /\ cur' = ToTraining(cur, "trained_after_error")
                /\ init_pc' = "fit_scaler"
    /\ UNCHANGED <<disk, disk_writer, prev_how, train_data, last, explained>>
    /\ UNCHANGED notApiaryVars

\* _train_demo_model, lines 88-91: the dummy data and the scaler's fit.
InitFitScalerKeepLoaded ==
    /\ init_pc = "fit_scaler"
    /\ \E run \in FallbackRuns[cur.feature_names] :
        /\ train_data' = run.data
        /\ cur' = IF cur.scaler = UnfittedScaler
                  THEN [cur EXCEPT !.scaler = run.trained.scaler]
                  ELSE cur
    /\ init_pc' = "fit_model"
    /\ UNCHANGED <<disk, disk_writer, prev_how, last, explained>>
    /\ UNCHANGED notApiaryVars

InitFitScaler ==
    /\ init_pc = "fit_scaler"
    /\ \E run \in FallbackRuns[cur.feature_names] :
        /\ train_data' = run.data
        /\ cur' = [cur EXCEPT !.scaler = run.trained.scaler]
    /\ init_pc' = "fit_model"
    /\ UNCHANGED <<disk, disk_writer, prev_how, last, explained>>
    /\ UNCHANGED notApiaryVars

\* _train_demo_model, lines 95-100: the forest and its fit.
InitFitModel ==
    /\ init_pc = "fit_model"
    /\ cur' = [cur EXCEPT !.model = TrainDemoModel(Fields(cur), train_data).model]
    /\ init_pc' = "save"
    /\ UNCHANGED <<disk, disk_writer, prev_how, train_data, last, explained>>
    /\ UNCHANGED notApiaryVars

\* _train_demo_model, lines 103-104: _save_model.
InitSave ==
    /\ init_pc = "save"
    /\ \E ts \in Timestamps : disk' = SaveModel(Fields(cur), ts)
    /\ disk_writer' = "self"
    /\ init_pc' = "return"
    /\ UNCHANGED <<cur, prev_how, train_data, last, explained>>
    /\ UNCHANGED notApiaryVars

\* __init__ returns and the instance becomes reachable by the handlers.
InitReturn ==
    /\ init_pc = "return"
    /\ cur' = [cur EXCEPT !.constructed = TRUE]
    /\ init_pc' = "done"
    /\ last' = Call("construct", <<>>, Ok(0))
    /\ UNCHANGED <<disk, disk_writer, prev_how, train_data, explained>>
    /\ UNCHANGED notApiaryVars

ServiceNext ==
    \/ InitFields
    \/ InitUnpickle
    \/ InitLoadItem
    \/ InitFitScaler
    \/ InitFitModel
    \/ InitSave
    \/ InitReturn
    \/ PredictCall
    \/ ImportancesCall
    \/ ExplainCall

----------------------------------------------------------------------------
(* Specifications *)

StitchInit ==
    ImgInit /\ NdviIdle /\ HealthIdle /\ FlowerIdle /\ ReqIdle /\ ApiaryIdle
    /\ PrepIdle
    /\ WaterIdle

SpecStitch == StitchInit /\ [][ImgNext]_vars

NdviOnlyInit ==
    NdviInit /\ ImgIdle /\ HealthIdle /\ FlowerIdle /\ ReqIdle /\ ApiaryIdle
    /\ PrepIdle
    /\ WaterIdle

SpecNdvi == NdviOnlyInit /\ [][NdviNext]_vars

HealthOnlyInit ==
    HealthInit /\ ImgIdle /\ NdviIdle /\ FlowerIdle /\ ReqIdle /\ ApiaryIdle
    /\ PrepIdle
    /\ WaterIdle

FlowerOnlyInit ==
    FlowerInit /\ ImgIdle /\ NdviIdle /\ HealthIdle /\ ReqIdle /\ ApiaryIdle
    /\ PrepIdle
    /\ WaterIdle

ReqOnlyInit ==
    ReqInit /\ ImgIdle /\ NdviIdle /\ HealthIdle /\ FlowerIdle /\ ApiaryIdle
    /\ PrepIdle
    /\ WaterIdle

SpecRoutes == ReqOnlyInit /\ [][ReqNext]_vars

SpecFlower == FlowerOnlyInit /\ [][FlowerNext]_vars

SpecHealth == HealthOnlyInit /\ [][HealthNext]_vars

PrepOnlyInit ==
    PrepInit /\ ImgIdle /\ NdviIdle /\ HealthIdle
    /\ FlowerIdle /\ ReqIdle /\ ApiaryIdle
    /\ WaterIdle

SpecPrep == PrepOnlyInit /\ [][PrepNext]_vars

WaterOnlyInit ==
    WaterInit /\ ImgIdle /\ PrepIdle /\ NdviIdle
    /\ HealthIdle /\ FlowerIdle /\ ReqIdle /\ ApiaryIdle

SpecWater == WaterOnlyInit /\ [][WaterNext]_vars

FlowerPyOnlyInit ==
    FlowerPyInit /\ ImgIdle /\ PrepIdle /\ NdviIdle /\ HealthIdle
    /\ ReqIdle /\ WaterIdle /\ ApiaryIdle

SpecFlowerPy == FlowerPyOnlyInit /\ [][FlowerPyNext]_vars

ApiaryOnlyInit ==
    ApiaryInit /\ ImgIdle /\ NdviIdle /\ HealthIdle /\ FlowerIdle /\ ReqIdle
    /\ PrepIdle
    /\ WaterIdle

SpecApiary == ApiaryOnlyInit /\ [][ApiaryNext]_vars

SpecService == ApiaryOnlyInit /\ [][ServiceNext]_vars

----------------------------------------------------------------------------
(* Properties of GeoCNN.predict_image *)

\* The window of the patch at offset off, as the tiling cut it:
\* rows off[1] .. off[1] + patch_size - 1, columns likewise.
PatchWindow(off) ==
    {px \in Pixels(h, w) :
        /\ off[1] <= px[1] /\ px[1] < off[1] + patch_size
        /\ off[2] <= px[2] /\ px[2] < off[2] + patch_size}

\* The patches (positions in patch_indices) whose window holds pixel px.
Covering(px) ==
    {k \in 1..Len(patch_indices) : px \in PatchWindow(patch_indices[k])}

\* Twice patch_size times the weight patch k gives pixel px.
PatchWeight2(k, px) ==
    Weight2(px[1] - patch_indices[k][1], px[2] - patch_indices[k][2],
            patch_size)

\* C2 (as stated): once a pixel has been written by the first patch that
\* covers it, a later patch changes the pixel's class only if its weight at
\* the pixel is greater than 0.5, whatever class the first writer wrote.
C2_FirstWriterWins ==
    [][(pc_img = "stitch" /\ pidx <= Len(patch_indices)) =>
        \A px \in Pixels(h, w) :
            ((\E k \in Covering(px) : k < pidx) /\ output'[px] # output[px])
                => PatchWeight2(pidx, px) > patch_size]_vars

\* C3 (as stated): in the returned map every pixel covered by two or more
\* patches holds the class of a covering patch of highest weight.
C3_HighestWeightWins ==
    pc_img = "done" =>
        \A px \in Pixels(h, w) :
            Cardinality(Covering(px)) >= 2 =>
                \E k \in Covering(px) :
                    /\ \A m \in Covering(px) :
                            PatchWeight2(m, px) <= PatchWeight2(k, px)
                    /\ output[px] = class_predictions[k]

\* The class the overwrite rule leaves at px: that of the last covering
\* patch, in processing order, whose weight exceeds 0.5, when it is not 0;
\* otherwise the first non-zero class among the covering patches processed
\* after that patch (among all of them when no weight exceeds 0.5), else 0.
StitchPolicy(px) ==
    LET over == {k \in Covering(px) : PatchWeight2(k, px) > patch_size}
        lastOver == IF over = {} THEN 0 ELSE MaxOf(over)
        rest == {k \in Covering(px) :
                    k > lastOver /\ class_predictions[k] # 0}
    IN  IF lastOver > 0 /\ class_predictions[lastOver] # 0
        THEN class_predictions[lastOver]
        ELSE IF rest = {} THEN 0 ELSE class_predictions[MinOf(rest)]

\* C3 (amended): in the returned map every pixel covered by two or more
\* patches holds the class of the last-processed covering patch whose weight
\* there exceeds 0.5, when there is one and its class is not 0; otherwise the
\* first non-zero class among the covering patches processed after it (among
\* all covering patches when none exceeds 0.5), and 0 when there is none.
C3_LastOverHalfWins ==
    pc_img = "done" =>
        \A px \in Pixels(h, w) :
            Cardinality(Covering(px)) >= 2 => output[px] = StitchPolicy(px)

\* A returned map with a pixel that two patches of different non-zero classes
\* both weigh above 0.5, the earlier one more than the later one.
C3_Witness ==
    /\ pc_img = "done"
    /\ \E px \in Pixels(h, w) : \E a, b \in Covering(px) :
        /\ a < b
        /\ PatchWeight2(b, px) > patch_size
        /\ PatchWeight2(a, px) > PatchWeight2(b, px)
        /\ class_predictions[a] # 0
        /\ class_predictions[b] # 0
        /\ class_predictions[a] # class_predictions[b]

\* C4: in the returned class map each pixel covered by no patch is 0 and each
\* covered pixel holds the predicted class of one of the patches covering it.
C4_UncoveredZeroCoveredFromPatch ==
    pc_img = "done" =>
        /\ DOMAIN output = Pixels(h, w)
        /\ \A px \in Pixels(h, w) :
            IF Covering(px) = {}
            THEN output[px] = 0
            ELSE \E k \in Covering(px) : output[px] = class_predictions[k]

\* A returned map with an uncovered pixel, a pixel covered by exactly one
\* patch of non-zero class, and a pixel covered by several patches.
C4_Witness ==
    /\ pc_img = "done"
    /\ \E px \in Pixels(h, w) : Covering(px) = {}
    /\ \E px \in Pixels(h, w) :
        /\ Cardinality(Covering(px)) = 1
        /\ output[px] # 0
    /\ \E px \in Pixels(h, w) : Cardinality(Covering(px)) >= 2

\* The offsets the tiling rule allows: multiples of the stride whose window
\* lies fully inside the image.
ExpectedOffsets ==
    {off \in (0..h) \X (0..w) :
        /\ off[1] % stride = 0
        /\ off[2] % stride = 0
        /\ off[1] + patch_size <= h
        /\ off[2] + patch_size <= w}

RowMajorBefore(a, b) == a[1] < b[1] \/ (a[1] = b[1] /\ a[2] < b[2])

\* C5: patch extraction yields, in row-major order and once each, exactly the
\* offsets (i, j) that are multiples of the stride with i + s <= h and
\* j + s <= w; 128 x 128 with s = 64 and t = 32 gives the 9 offsets
\* (0,0), (0,32), (0,64), (32,0), ..., (64,64).
C5_PatchOffsets ==
    /\ (pc_img \in {"stitch", "done"} \/ (pc_img = "error" /\ stride > 0)) =>
        /\ SeqToSet(patch_indices) = ExpectedOffsets
        /\ \A a, b \in 1..Len(patch_indices) :
            a < b => RowMajorBefore(patch_indices[a], patch_indices[b])
    /\ pc_img = "start" =>
        PatchIndices(128, 128, 64, 32) =
            << <<0, 0>>, <<0, 32>>, <<0, 64>>,
               <<32, 0>>, <<32, 32>>, <<32, 64>>,
               <<64, 0>>, <<64, 32>>, <<64, 64>> >>

\* A tiling of several rows and columns that drops a window at the border.
C5_Witness ==
    /\ pc_img = "stitch"
    /\ Len(patch_indices) >= 4
    /\ \E px \in Pixels(h, w) : Covering(px) = {}

----------------------------------------------------------------------------
(* Properties of calculate_ndvi *)

\* The fraction f is the number n / d (d > 0).
FracIs(f, n, d) == f[2] > 0 /\ f[1] * d = n * f[2]

FracInUnit(f) == f[2] > 0 /\ -f[2] <= f[1] /\ f[1] <= f[2]

\* C6 (as stated): calculate_ndvi returns, for every pixel, exactly 0 where
\* nir + red <= 0 and (nir - red) / (nir + red) where nir + red > 0; for
\* non-negative nir and red with nir + red > 0 the result lies in [-1, 1].
C6_NdviFormula ==
    pc_ndvi = "done" =>
        /\ Len(ndvi) = Len(nir_band)
        /\ \A k \in 1..Len(nir_band) :
            LET n == nir_band[k]
                r == red_band[k]
            IN  /\ n + r <= 0 => ndvi[k] = Frac(0, 1)
                /\ n + r > 0 => FracIs(ndvi[k], n - r, n + r)
                /\ (n >= 0 /\ r >= 0 /\ n + r > 0) => FracInUnit(ndvi[k])

\* The stitching loop run over the patches in the order given, a sequence of
\* positions in patch_indices, from the all-zero map.
RECURSIVE StitchInOrder(_, _)
StitchInOrder(out, order) ==
    IF order = <<>> THEN out
    ELSE StitchInOrder(StitchOne(out, patch_indices[Head(order)],
                                 class_predictions[Head(order)],
                                 patch_size, h, w),
                       Tail(order))

\* Every order in which all the patches can be processed.
ProcessingOrders ==
    LET n == Len(patch_indices)
    IN  {o \in [1..n -> 1..n] : \A a, b \in 1..n : o[a] = o[b] => a = b}

\* C24 (as stated): the class map produced by the stitching step does not
\* depend on the order in which the patches are stitched: for the pairs of
\* offset and predicted class of a call, every processing order gives the
\* map the call returns.
C24_OrderIndependent ==
    pc_img = "done" =>
        \A o \in ProcessingOrders :
            StitchInOrder([px \in Pixels(h, w) |-> 0], o) = output

----------------------------------------------------------------------------
(* Properties of GeoCNN.prepare_sentinel_data (src/python variant) *)

\* The row-major tiling sequence of the image: every y of the outer range
\* with every x of the inner range, rows first.
RowMajorTiling ==
    LET t  == StrideOf(sp_patch_size, overlap)
        ys == PyRange(height - sp_patch_size + 1, t)
        xs == PyRange(width - sp_patch_size + 1, t)
    IN  [k \in 1..(Len(ys) * Len(xs)) |->
            <<ys[((k - 1) \div Len(xs)) + 1], xs[((k - 1) % Len(xs)) + 1]>>]

\* C22 (as stated): prepare_sentinel_data returns at most max_patches
\* patches for every image size and every max_patches >= 0, and the patches
\* returned are the first ones of the row-major tiling sequence.
C22_AtMostMaxPatches ==
    pc_prep = "done" =>
        /\ Len(patches) <= max_patches
        /\ Len(patches) <= Len(RowMajorTiling)
        /\ patches = SubSeq(RowMajorTiling, 1, Len(patches))

\* C25 (as stated): for bands held as unsigned 16-bit integers
\* calculate_ndvi gives the value of the formula on the mathematical
\* integers, (nir - red) / (nir + red) where nir + red > 0 and 0 elsewhere:
\* neither the difference nor the sum wraps modulo 2^16, also when red > nir
\* or nir + red >= 65536.
C25_NoWrapOnUint16 ==
    (pc_ndvi = "done" /\ band_dtype = "uint16") =>
        \A k \in 1..Len(nir_band) :
            IF nir_band[k] + red_band[k] > 0
            THEN FracIs(ndvi[k], nir_band[k] - red_band[k],
                        nir_band[k] + red_band[k])
            ELSE ndvi[k][1] = 0

----------------------------------------------------------------------------
(* Properties of calculate_vegetation_health *)

ValidCells == {k \in 1..Len(ndvi_grid) : -10 <= ndvi_grid[k] /\ ndvi_grid[k] <= 10}

CellsIn(lo, hi) == {k \in ValidCells : lo <= ndvi_grid[k] /\ ndvi_grid[k] < hi}

\* C7: for a grid with at least one value in [-1, 1] every value in [-1, 1] is
\* counted in exactly one of the buckets <0.2, [0.2,0.4), [0.4,0.6),
\* [0.6,0.8), >=0.8 and every other value in none, so the five percentages sum
\* to 100; a grid of constant 0.5 gives healthy = 100, the other buckets 0 and
\* average_ndvi = 0.5.
C7_HealthBuckets ==
    /\ (pc_health = "start" /\ ValidCells # {}) => ENABLED CalculateVegetationHealth
    /\ pc_health = "done" =>
        LET nv == Cardinality(ValidCells)
        IN  /\ nv > 0
            /\ metrics.unhealthy = Frac(100 * Cardinality(CellsIn(-10, 2)), nv)
            /\ metrics.moderate = Frac(100 * Cardinality(CellsIn(2, 4)), nv)
            /\ metrics.healthy = Frac(100 * Cardinality(CellsIn(4, 6)), nv)
            /\ metrics.very_healthy = Frac(100 * Cardinality(CellsIn(6, 8)), nv)
            /\ metrics.exceptional = Frac(100 * Cardinality(CellsIn(8, 11)), nv)
            /\ metrics.unhealthy[1] + metrics.moderate[1] + metrics.healthy[1]
                 + metrics.very_healthy[1] + metrics.exceptional[1] = 100 * nv
            /\ (\A k \in 1..Len(ndvi_grid) : ndvi_grid[k] = 5) =>
                /\ FracIs(metrics.healthy, 100, 1)
                /\ metrics.unhealthy[1] = 0
                /\ metrics.moderate[1] = 0
                /\ metrics.very_healthy[1] = 0
                /\ metrics.exceptional[1] = 0
                /\ FracIs(metrics.average_ndvi, 5, 1)

\* Metrics of a grid that holds a value outside [-1, 1] and the bucket
\* boundaries 0.6 and 0.8.
C7_Witness ==
    /\ pc_health = "done"
    /\ \E k \in 1..Len(ndvi_grid) : ndvi_grid[k] = 11
    /\ \E k \in 1..Len(ndvi_grid) : ndvi_grid[k] = 6
    /\ \E k \in 1..Len(ndvi_grid) : ndvi_grid[k] = 8

\* C21: calculate_vegetation_health called on a grid with no value in
\* [-1, 1] (the empty grid included) fails with an error: the call cannot
\* return, and no metrics mapping is ever produced for such a grid.
C21_NoValidPixelFails ==
    ValidCells = {} =>
        /\ pc_health # "done"
        /\ metrics = <<>>
        /\ pc_health = "start" =>
            /\ ENABLED HealthNoValidPixel
            /\ ~ENABLED CalculateVegetationHealth

\* The call has failed on a non-empty grid whose values are all outside
\* [-1, 1], on both sides of the interval.
C21_Witness ==
    /\ pc_health = "error"
    /\ \E k \in 1..Len(ndvi_grid) : ndvi_grid[k] = 11
    /\ \E k \in 1..Len(ndvi_grid) : ndvi_grid[k] = -11
    /\ ValidCells = {}

----------------------------------------------------------------------------
(* Properties of estimate_flowering_stage *)

\* C17: a call whose date is in month 9, 10 or 11 returns season 'autumn'
\* and the rosemary entry 'dormant' with flowering_percent 0, whatever the
\* NDVI and EVI grids (empty and all-invalid ones included).
C17_AutumnRosemaryDormant ==
    /\ (pc_flower = "start" /\ date_str.given /\ IsDate(date_str)
            /\ date_str.month \in {9, 10, 11}) => ENABLED FlowerOnDate
    /\ (pc_flower = "done" /\ date_str.month \in {9, 10, 11}) =>
            /\ flowering_info.season = "autumn"
            /\ flowering_info.species_stage["rosemary"] = Entry("dormant", 0)

\* A September call on a grid whose mean NDVI is above 0.5.
C17_Witness ==
    /\ pc_flower = "done"
    /\ date_str.given
    /\ date_str.month = 9
    /\ MeanOver(flowering_info.average_ndvi, 5)
    /\ flowering_info.species_stage["rosemary"].stage = "dormant"

OtherSpecies == Species \ {"rosemary"}

\* The entry of a species for the first day of a month and grids with no
\* value.  Calls that all agree with it agree with each other.
ReferenceEntry(month, sp) ==
    EstimateFloweringStage(<<>>, <<>>, DateStr(2024, month, 1))
        .species_stage[sp]

\* C18 (as stated): the entries of heather and eucalyptus are a function of
\* the season alone: every date in the same season gives the same entries,
\* whatever the month within the season and whatever the grids.
C18_SeasonAlone ==
    pc_flower = "done" =>
        \A month \in 1..12 : \A sp \in OtherSpecies :
            SeasonOf(month) = flowering_info.season =>
                flowering_info.species_stage[sp] = ReferenceEntry(month, sp)

\* C18 (amended): the entries of heather and eucalyptus are a function of
\* the month alone: every date in the same month gives the same entries,
\* whatever the day and whatever the NDVI and EVI grids.
C18_MonthAlone ==
    pc_flower = "done" =>
        \A sp \in OtherSpecies :
            flowering_info.species_stage[sp]
                = ReferenceEntry(date_str.month, sp)

\* An August call, where heather is 'early' and not the 'pre' of June and
\* July, on a grid whose mean NDVI is above 0.5.
C18_Witness ==
    /\ pc_flower = "done"
    /\ date_str.month = 8
    /\ flowering_info.season = "summer"
    /\ flowering_info.species_stage["heather"] = Entry("early", 30)
    /\ MeanOver(flowering_info.average_ndvi, 5)

----------------------------------------------------------------------------
(* Properties of the analyze-area handlers *)

\* The request reaches the size test of the Flask handler with a polygon.
HasPolygon ==
    /\ area_type \in {"polygon", "rectangle"}
    /\ ~PolygonRaises(coordinates)

SeqHas(seq, x) == \E k \in 1..Len(seq) : seq[k] = x

ImageryOrModelCalls ==
    {"fetch_sentinel_image", "GeoCNN.load", "GeoCNN", "predict_image",
     "explain_prediction"}

NoImageryOrModelCall == \A c \in ImageryOrModelCalls : ~SeqHas(calls, c)

\* C19: a request to the Flask handler whose polygon is larger than 1000
\* hectares never invokes fetch_sentinel_image, GeoCNN.load, GeoCNN or
\* predict_image, and its answer is an error.
C19_TooLargeRejectedBeforeWork ==
    (route = "flask" /\ HasPolygon /\ 12321 * Area2(coordinates) > 200000) =>
        /\ NoImageryOrModelCall
        /\ pc_req \in {"start", "polygon", "area", "done"}
        /\ pc_req = "done" => response.status = 400

\* The answer to a request with a triangle whose legs are 0.05 degree,
\* 1540 hectares.
C19_Witness ==
    /\ route = "flask"
    /\ pc_req = "done"
    /\ HasPolygon
    /\ Area2(coordinates) = 25
    /\ response = Response(400, "area too large")

\* C20 (as stated): a request whose polygon has fewer than 3 points invokes
\* no imagery fetch and no model prediction, in the Flask handler and in
\* the FastAPI route.
C20_FewPointsRejectedBeforeWork ==
    Len(coordinates) < 3 =>
        /\ NoImageryOrModelCall
        /\ pc_req = "done" => response.status # 200

----------------------------------------------------------------------------
(* Properties of ApiaryPotentialModel *)

\* The raw output of the regressor for a feature mapping.
RawScore(self, features) ==
    ForestPredict(self.model,
        ScalerTransform(self.scaler,
            [i \in 1..Len(self.feature_names) |->
                DictGetOr(features, self.feature_names[i], 0)]))

\* C1: whatever the regressor produced, a score returned by predict on an
\* instance whose model is present lies in [0, 100].
C1_ScoreClamped ==
    (last.op = "predict" /\ cur.model.kind # "None" /\ last.result.ok) =>
        /\ last.result.value >= 0
        /\ last.result.value <= 100

\* predict returned 0 for a regressor output below 0.
C1_Witness ==
    /\ last.op = "predict"
    /\ last.result.ok
    /\ RawScore(cur, last.features) < 0
    /\ last.result.value = 0

SamePredictions(a, b) ==
    \A f \in FeatureInputs : Predict(a, f) = Predict(b, f)

\* C8: loading a bundle that _save_model of the instance wrote, into the same
\* instance (_load_model) or a newly constructed one, succeeds and restores
\* the same regressor, scaler and feature-name order, so predict returns the
\* same result for every feature mapping before and after the round trip.
C8_SaveLoadRoundTrip ==
    [][(disk_writer = "self" /\ last'.op \in {"construct", "load"}) =>
        /\ last'.result.ok
        /\ cur'.how \in {"loaded", cur.how}
        /\ Fields(cur') = Fields(cur)
        /\ SamePredictions(cur', cur)]_vars

\* A new instance constructed from the bundle its predecessor trained and
\* saved, asked for a prediction.
C8_Witness ==
    /\ cur.how = "loaded"
    /\ prev_how \in {"trained_absent", "trained_after_error"}
    /\ disk_writer = "earlier"
    /\ last.op = "predict"
    /\ last.result.ok
    /\ last.result.value > 0

Fallback == {"trained_absent", "trained_after_error"}

\* C9 (as stated): every completed construction ends with a model present,
\* whether the file was absent, loadable or failing to load (predict does not
\* raise the not-trained error); a construction that took the
\* fallback path has written a loadable bundle of its model to model_path,
\* and the construction that follows it (the file left as written) takes the
\* load path and does not retrain.
C9_ConstructionEndsWithModel ==
    /\ [](last.op = "construct" =>
            /\ cur.constructed
            /\ cur.model.kind # "None"
            /\ \A f \in FeatureInputs :
                Predict(cur, f) # Raise("ValueError: not trained")
            /\ cur.how \in Fallback =>
                /\ disk.exists
                /\ ~LoadModel(FreshInstance, disk).raised
                /\ LoadModel(FreshInstance, disk).self = Fields(cur))
    /\ [][last'.op = "construct" =>
            /\ (~disk.exists \/ LoadModel(FreshInstance, disk).raised)
                    => cur'.how \in Fallback
            /\ (cur.how \in Fallback /\ disk_writer = "self") =>
                    /\ cur'.how = "loaded"
                    /\ train_data' = NoData]_vars

ImportanceOf(name) ==
    ForestImportances(cur.model)[IndexOf(cur.feature_names, name)]

\* C12: explain_prediction on the 14-name schema returns exactly 5
\* top_factors, each for a distinct feature and carrying that feature's
\* importance, in descending order of importance; factors of equal
\* importance are in schema order, and no feature left out has a higher
\* importance than one included.
C12_TopFiveByImportance ==
    (last.op = "explain" /\ last.result.ok) =>
        LET top == last.result.value.top_factors
            included == {top[k].feature : k \in 1..Len(top)}
        IN  /\ Len(cur.feature_names) = 14
            /\ Len(top) = 5
            /\ \A k, l \in 1..Len(top) :
                    top[k].feature = top[l].feature => k = l
            /\ \A k \in 1..Len(top) :
                    /\ IndexOf(cur.feature_names, top[k].feature) > 0
                    /\ top[k].importance = ImportanceOf(top[k].feature)
            /\ \A k, l \in 1..Len(top) : k < l =>
                    /\ top[k].importance >= top[l].importance
                    /\ top[k].importance = top[l].importance =>
                            IndexOf(cur.feature_names, top[k].feature)
                                < IndexOf(cur.feature_names, top[l].feature)
            /\ \A name \in SeqToSet(cur.feature_names) \ included :
                    \A k \in 1..Len(top) :
                        ImportanceOf(name) <= top[k].importance

\* Top factors of a model whose importances tie, inside the five and across
\* the cut after the fifth.
C12_Witness ==
    /\ last.op = "explain"
    /\ last.result.ok
    /\ LET top == last.result.value.top_factors
       IN  /\ Len(top) = 5
           /\ top[1].importance > top[3].importance
           /\ top[3].importance = top[4].importance
           /\ \E name \in SeqToSet(cur.feature_names) :
                /\ \A k \in 1..5 : top[k].feature # name
                /\ ImportanceOf(name) = top[5].importance

\* C13: on an instance whose model is absent, predict,
\* get_feature_importances and explain_prediction each raise instead of
\* returning a score or a mapping, and leave model, scaler and feature_names
\* as they were.
C13_AbsentModelRaises ==
    [][(cur.constructed /\ cur.model.kind = "None"
            /\ last'.op \in {"predict", "importances", "explain"}) =>
        /\ ~last'.result.ok
        /\ Fields(cur') = Fields(cur)
        /\ \A f \in FeatureInputs :
                /\ ~Predict(cur, f).ok
                /\ ~ExplainPrediction(cur, f).ok]_vars

\* explain_prediction raised on an instance constructed from a bundle that
\* holds no model.
C13_Witness ==
    /\ cur.constructed
    /\ cur.how = "loaded"
    /\ cur.model.kind = "None"
    /\ last.op = "explain"
    /\ ~last.result.ok

\* The names of the instance's schema that a feature mapping lacks.
MissingNames(features) == SeqToSet(cur.feature_names) \ DOMAIN features

\* C14 (as stated): predict called with a feature mapping that lacks a name
\* of the instance's schema fails with an error; it returns no score.
C14_MissingFeatureFails ==
    (last.op = "predict" /\ MissingNames(last.features) # {}) =>
        ~last.result.ok

\* The feature names held by the bundle at model_path, when it has any.
BundleHasNames ==
    /\ disk.exists
    /\ WellFormed(disk.bytes)
    /\ HasKey(Unpickle(disk.bytes), "feature_names")

BundleNames == ItemOf(Unpickle(disk.bytes), "feature_names")

\* C15 (as stated): a construction that finds a bundle whose feature names
\* differ from the 14-name schema of __init__ does not adopt the bundle: the
\* load fails, so the instance is not a loaded one and keeps the schema it
\* expects.
C15_SchemaMismatchRejected ==
    [][(last'.op = "construct" /\ BundleHasNames
            /\ BundleNames # DefaultFeatureNames) =>
        /\ cur'.how # "loaded"
        /\ cur'.feature_names = DefaultFeatureNames
        /\ cur'.model # ItemOf(Unpickle(disk.bytes), "model")]_vars

HandlerOps == {"predict", "importances", "explain"}

\* The instance holds a whole model: the three fields of the bundle at
\* model_path, or the scaler and the forest of one fallback training run
\* with the schema of __init__, saved at model_path.
WholeModel ==
    \/ /\ cur.how = "loaded"
       /\ ~LoadModel(FreshInstance, disk).raised
       /\ Fields(cur) = LoadModel(FreshInstance, disk).self
    \/ /\ cur.how \in Fallback
       /\ \E run \in FallbackRuns[DefaultFeatureNames] :
            /\ run.data = train_data
            /\ Fields(cur) = run.trained
       /\ ~LoadModel(FreshInstance, disk).raised
       /\ Fields(cur) = LoadModel(FreshInstance, disk).self

\* C16: model, scaler and feature_names change only in steps of the
\* constructor, before it has returned; predict, get_feature_importances
\* and explain_prediction leave all three unchanged; and the instance the
\* request handlers reach is always a whole one, never one whose load or
\* training is part-way.
C16_WrittenOnlyByConstructor ==
    /\ [](cur.constructed => (init_pc = "done" /\ WholeModel))
    /\ [][(Fields(cur') # Fields(cur) =>
                (/\ ~cur.constructed
                 /\ init_pc \notin {"none", "return", "done"}
                 /\ last' = last))
           /\ ((last' # last /\ last'.op \in HandlerOps) =>
                (/\ cur.constructed
                 /\ init_pc = "done"
                 /\ cur' = cur))]_vars

\* A handler's call on an instance whose constructor had assigned the
\* bundle's model and scaler before the load failed, and then trained.
C16_Witness ==
    /\ cur.constructed
    /\ cur.how = "trained_after_error"
    /\ last.op = "explain"
    /\ last.result.ok
    /\ cur.model # ElsewhereModel
    /\ cur.scaler # ElsewhereScaler

\* The regressor and the scaler of the instance come from one source: both
\* are items of the bundle at model_path, or the scaler is the fit on the
\* training data of one fallback run and the regressor is the forest fitted
\* on that data as that scaler transforms it.
BelongTogether ==
    \/ /\ cur.how = "loaded"
       /\ WellFormed(disk.bytes)
       /\ HasKey(Unpickle(disk.bytes), "model")
       /\ HasKey(Unpickle(disk.bytes), "scaler")
       /\ cur.model = ItemOf(Unpickle(disk.bytes), "model")
       /\ cur.scaler = ItemOf(Unpickle(disk.bytes), "scaler")
    \/ /\ cur.how \in Fallback
       /\ train_data # NoData
       /\ cur.scaler = ScalerFit(train_data.X)
       /\ cur.model =
            ForestFit([r \in 1..Len(train_data.X) |->
                          ScalerTransform(cur.scaler, train_data.X[r])],
                      train_data.y)

\* The bundle at model_path lets _load_model assign the model, or the model
\* and the scaler, and then lacks the next key.
PartialBundle ==
    /\ disk.exists
    /\ WellFormed(disk.bytes)
    /\ HasKey(Unpickle(disk.bytes), "model")
    /\ ~HasKey(Unpickle(disk.bytes), "feature_names")

\* C23: once the constructor has finished its load or its training, and so
\* when it completes, the regressor and the scaler belong together: both come
\* from the loaded bundle or both from one fallback training run, also when
\* _load_model failed after assigning the model, or the model and the
\* scaler; and neither changes from then on.
C23_RegressorAndScalerTogether ==
    /\ [](init_pc \in {"save", "return", "done"} => BelongTogether)
    /\ [][(init_pc \in {"save", "return", "done"} =>
                Fields(cur') = Fields(cur))]_vars

\* The constructor has trained after a load that had assigned the bundle's
\* model and scaler and failed on the missing 'feature_names'; the bundle is
\* still the file at model_path.
C23_Witness ==
    /\ init_pc = "save"
    /\ cur.how = "trained_after_error"
    /\ PartialBundle
    /\ HasKey(Unpickle(disk.bytes), "scaler")
    /\ cur.model # ItemOf(Unpickle(disk.bytes), "model")
    /\ cur.scaler # ItemOf(Unpickle(disk.bytes), "scaler")

\* The features ApiaryPotentialModel.predict fills with the 0.0 default for
\* the mapping MLService built: the names of self.feature_names that are no
\* key of it.
DefaultedFeatures ==
    {DefaultFeatureNames[k] : k \in 1..Len(DefaultFeatureNames)}
        \ DOMAIN ml_features

\* C26 (as stated): every one of the 14 feature names that predict reads is
\* a key of the mapping built by MLService._extract_ml_features_from_geo, so
\* in analyze_area_potential no model feature is filled with the 0.0 default.
C26_NoFeatureDefaulted ==
    SeqHas(calls, "explain_prediction") => DefaultedFeatures = {}

\* Every source of the list has a distance, and the list is not empty.
HasDistances(sources) ==
    /\ sources # <<>>
    /\ \A k \in 1..Len(sources) : sources[k].given

NearestDistance(sources) ==
    MinOf({sources[k].km10 : k \in 1..Len(sources)})

\* C27 (as stated): _calculate_water_proximity_score is non-increasing in
\* the distance of the nearest water source: for source lists whose
\* distances are >= 0 (0 included), a list with a smaller or equal minimum
\* distance never gets a lower score, and the score stays in [0, 1].
C27_CloserNeverLower ==
    (pc_water = "done" /\ HasDistances(water_sources)) =>
        /\ FracInUnit(water_proximity)
        /\ water_proximity[1] >= 0
        /\ \A other \in SeqsUpTo(WaterSourceVals, 1, MaxSources) :
            (/\ HasDistances(other)
             /\ NearestDistance(other) <= NearestDistance(water_sources)) =>
                FracLeq(water_proximity, CalculateWaterProximityScore(other))

\* C28 (as stated): every temporary directory created while the Flask
\* analyze-area handler serves a request, the one made by
\* fetch_sentinel_image and the one made for outputs, has been removed by
\* the time the handler returns, on the success path and on every error
\* path.
C28_TempDirsRemoved ==
    (route = "flask" /\ pc_req = "done") => temp_dirs = {}

\* C29 (as stated): the FastAPI analyze-area route answers a request with a
\* missing area type or empty coordinates with status 400; the 400 raised
\* inside the handler is not turned into another status by the handler's own
\* exception handling.
C29_MissingParamsAnswered400 ==
    (/\ route = "fastapi"
     /\ pc_req = "done"
     /\ (area_type = "" \/ coordinates = <<>>)) =>
        response.status = 400

\* C30 (as stated): estimate_flowering_stage of the src/python variant
\* returns, for every calendar date, a non-null season and a species_stage
\* mapping with an entry for each of rosemary, heather and eucalyptus.
C30_SeasonAndEverySpecies ==
    pc_flower = "done" =>
        /\ flowering_info.season # "None"
        /\ DOMAIN flowering_info.species_stage
              = {"rosemary", "heather", "eucalyptus"}

\* C10 (as stated): two constructions that both take the fallback path
\* generate the same training data and end with models that give the same
\* score for every feature mapping.
C10_FallbackReproducible ==
    [][(last'.op = "construct" /\ cur.how \in Fallback
            /\ cur'.how \in Fallback) =>
        /\ train_data' = train_data
        /\ SamePredictions(cur', cur)]_vars

============================================================================
